---- MODULE Spec2Model ----
(***************************************************************************)
(* A model of the Wwise SoundBank codec of this repository: the deku       *)
(* schema of src/format/src/bnk.rs (decode and encode, byte by byte), the  *)
(* export-prepare pass of src/format/src/export.rs and the entry points    *)
(* of src/format/src/lib.rs and src/format/src/bin/bnk2json.rs.            *)
(*                                                                         *)
(* Bytes are naturals 0..255 and a byte stream is a sequence of bytes; a   *)
(* read position is a 1-based index into the stream.  Little-endian        *)
(* scalars are read and written as the code does.  f32/f64 fields are      *)
(* carried as their bit patterns (deku copies them bit for bit).  A struct *)
(* whose fields are all fixed-width scalars is carried as its wire bytes,  *)
(* with its enum-typed fields checked against their id tables on read.     *)
(* The model keeps every u32 below 2^31, the range of TLC's integers.      *)
(***************************************************************************)
EXTENDS Integers, Sequences, FiniteSets, TLC

(***************************************************************************)
(* A read cursor is [st, pos, val]: st is "ok", "err" (a DekuError         *)
(* returned to the caller), "panic" (the thread panics) or "overflow" (an  *)
(* unchecked u32 subtraction went below zero: a panic in a build with      *)
(* overflow checks, a wrapped count otherwise); pos is the position of the *)
(* next byte; val is what has been read of the value under construction:   *)
(* a record of the fields read so far, or a sequence of elements.          *)
(***************************************************************************)
Ok(p, v) == [st |-> "ok", pos |-> p, val |-> v]

Err(s) == [st |-> s, pos |-> 0, val |-> <<>>]

(* ------------------------------------------------------------------ *)
(* deku primitives: little-endian scalars                              *)
(* ------------------------------------------------------------------ *)
u8_write(v) == <<v % 256>>

u16_write(v) == <<v % 256, (v \div 256) % 256>>

u32_write(v) == <<v % 256, (v \div 256) % 256, (v \div 65536) % 256, (v \div 16777216) % 256>>

RECURSIVE from_le_bytes(_)
from_le_bytes(bytes) ==
    IF bytes = <<>> THEN 0 ELSE Head(bytes) + 256 * from_le_bytes(Tail(bytes))

(* An unsigned scalar of width bytes; ids is the closed id table of an
   enum of that width, or {} for a plain number. *)
scalar_read(b, p, width, ids) ==
    IF p + width - 1 > Len(b) THEN Err("err")
    ELSE IF ids # {} /\ from_le_bytes(SubSeq(b, p, p + width - 1)) \notin ids THEN Err("err")
    ELSE Ok(p + width, from_le_bytes(SubSeq(b, p, p + width - 1)))

(* Vec<u8> with Limit::Count(n) or Limit::ByteSize(n): exactly n bytes. *)
bytes_read(b, p, n) ==
    IF p + n - 1 <= Len(b) THEN Ok(p + n, SubSeq(b, p, p + n - 1)) ELSE Err("err")

(* Vec<scalar> with Limit::Count(n). *)
RECURSIVE scalars_read(_, _, _, _, _, _)
scalars_read(b, p, n, width, ids, acc) ==
    IF n = 0 THEN Ok(p, acc)
    ELSE IF scalar_read(b, p, width, ids).st # "ok" THEN Err("err")
    ELSE scalars_read(b, p + width, n - 1, width, ids,
                      Append(acc, scalar_read(b, p, width, ids).val))

RECURSIVE u32s_write(_)
u32s_write(vs) ==
    IF vs = <<>> THEN <<>> ELSE u32_write(Head(vs)) \o u32s_write(Tail(vs))

(* Vec<struct of fixed-width scalars> with Limit::Count(n): n blocks of
   width bytes; checks names the enum-typed fields of the struct as
   [at, width, ids] (offset in the block, width, id table). *)
block_valid(block, checks) ==
    \A c \in checks : from_le_bytes(SubSeq(block, c.at + 1, c.at + c.width)) \in c.ids

RECURSIVE blocks_read(_, _, _, _, _, _)
blocks_read(b, p, n, width, checks, acc) ==
    IF n = 0 THEN Ok(p, acc)
    ELSE IF p + width - 1 > Len(b) THEN Err("err")
    ELSE IF ~block_valid(SubSeq(b, p, p + width - 1), checks) THEN Err("err")
    ELSE blocks_read(b, p + width, n - 1, width, checks,
                     Append(acc, SubSeq(b, p, p + width - 1)))

RECURSIVE blocks_write(_)
blocks_write(bs) == IF bs = <<>> THEN <<>> ELSE Head(bs) \o blocks_write(Tail(bs))

Zeros(n) == [i \in 1 .. n |-> 0]

(* ------------------------------------------------------------------ *)
(* Field readers.  Each reads one field at the cursor and stores it in  *)
(* the cursor's value: under its name in the record under               *)
(* construction, or, with the name "", as the next element of the       *)
(* sequence under construction.  A failed cursor stays as it is.        *)
(* ------------------------------------------------------------------ *)
begin(s) == [s EXCEPT !.val = <<>>]

field(s, name, e) ==
    IF s.st # "ok" THEN s
    ELSE IF e.st # "ok" THEN e
    ELSE Ok(e.pos, IF name = "" THEN Append(s.val, e.val) ELSE (name :> e.val) @@ s.val)

(* A field that is not on the wire (deku skip, a tag): its default. *)
absent(s, name, v) == IF s.st # "ok" THEN s ELSE field(s, name, Ok(s.pos, v))

u8(b, s, name) == IF s.st # "ok" THEN s ELSE field(s, name, scalar_read(b, s.pos, 1, {}))

u16(b, s, name) == IF s.st # "ok" THEN s ELSE field(s, name, scalar_read(b, s.pos, 2, {}))

u32(b, s, name) == IF s.st # "ok" THEN s ELSE field(s, name, scalar_read(b, s.pos, 4, {}))

enum(b, s, name, width, ids) ==
    IF s.st # "ok" THEN s ELSE field(s, name, scalar_read(b, s.pos, width, ids))

bytes(b, s, name, n) == IF s.st # "ok" THEN s ELSE field(s, name, bytes_read(b, s.pos, n))

(* Counted vectors: the count is the field count_name read before. *)
scalars(b, s, name, count_name, width, ids) ==
    IF s.st # "ok" THEN s
    ELSE field(s, name, scalars_read(b, s.pos, s.val[count_name], width, ids, <<>>))

blocks(b, s, name, count_name, width, checks) ==
    IF s.st # "ok" THEN s
    ELSE field(s, name, blocks_read(b, s.pos, s.val[count_name], width, checks, <<>>))

(* ------------------------------------------------------------------ *)
(* Decision-tree codec (AkDecisionTreeNode)                            *)
(* A node is [key, node_id, first_child_index, child_count, weight,    *)
(* probability, children].                                             *)
(* ------------------------------------------------------------------ *)
(* Variant of the write loop that walks the tree depth-first (children go
   to the front of the queue); C11 must tell it from the original. *)
RECURSIVE AkDecisionTreeNode_write_loop_depth_first(_, _)
AkDecisionTreeNode_write_loop_depth_first(pending, next_child_index) ==
    IF pending = <<>> THEN <<>>
    ELSE LET node == Head(pending)
             child_count == Len(node.children) % 65536
             middle == IF node.child_count = 0
                       THEN u32_write(node.node_id)
                       ELSE u16_write(next_child_index) \o u16_write(child_count)
             next == IF node.child_count = 0
                     THEN next_child_index
                     ELSE (next_child_index + child_count) % 65536
         IN u32_write(node.key) \o middle
            \o u16_write(node.weight) \o u16_write(node.probability)
            \o AkDecisionTreeNode_write_loop_depth_first(node.children \o Tail(pending), next)

RECURSIVE AkDecisionTreeNode_write_loop(_, _)
AkDecisionTreeNode_write_loop(pending, next_child_index) ==
    IF pending = <<>> THEN <<>>
    ELSE LET node == Head(pending)
             child_count == Len(node.children) % 65536
             middle == IF node.child_count = 0
                       THEN u32_write(node.node_id)
                       ELSE u16_write(next_child_index) \o u16_write(child_count)
             next == IF node.child_count = 0
                     THEN next_child_index
                     ELSE (next_child_index + child_count) % 65536
         IN u32_write(node.key) \o middle
            \o u16_write(node.weight) \o u16_write(node.probability)
            \o AkDecisionTreeNode_write_loop(Tail(pending) \o node.children, next)

AkDecisionTreeNode_write(node) == AkDecisionTreeNode_write_loop(<<node>>, 1)

(* Variant of the leaf test that stops one level late; C29 must tell it
   from the original. *)
parse_node_is_leaf_past_depth(first_child_index, child_count, tree_size, tree_depth, current_depth) ==
    \/ first_child_index > tree_size % 65536
    \/ child_count > tree_size % 65536
    \/ current_depth > tree_depth

(* The leaf test of parse_node: the candidate halves of the middle field
   are compared with tree_size (a byte count) truncated to u16. *)
parse_node_is_leaf(first_child_index, child_count, tree_size, tree_depth, current_depth) ==
    \/ first_child_index > tree_size % 65536
    \/ child_count > tree_size % 65536
    \/ current_depth = tree_depth

(* The node of a 12-byte record at position p of the block, given the
   cursor that read its children. *)
parse_node_result(slice, p, leaf, children) ==
    IF children.st # "ok" THEN children
    ELSE Ok(0, [key |-> from_le_bytes(SubSeq(slice, p, p + 3)),
                node_id |-> IF leaf THEN from_le_bytes(SubSeq(slice, p + 4, p + 7)) ELSE 0,
                first_child_index |->
                    IF leaf THEN 0 ELSE from_le_bytes(SubSeq(slice, p + 4, p + 5)),
                child_count |->
                    IF leaf THEN 0 ELSE from_le_bytes(SubSeq(slice, p + 6, p + 7)),
                weight |-> from_le_bytes(SubSeq(slice, p + 8, p + 9)),
                probability |-> from_le_bytes(SubSeq(slice, p + 10, p + 11)),
                children |-> children.val])

RECURSIVE parse_node(_, _, _, _, _)
RECURSIVE parse_nodes(_, _, _, _, _, _, _)
parse_nodes(slice, tree_size, tree_depth, current_depth, offset, count, items) ==
    IF count = 0 \/ items.st # "ok" THEN items
    ELSE parse_nodes(slice, tree_size, tree_depth, current_depth, offset + 1, count - 1,
                     field(items, "",
                           parse_node(slice, tree_size, tree_depth, current_depth, offset)))

parse_node(slice, tree_size, tree_depth, current_depth, offset) ==
    IF offset * 12 > Len(slice) THEN Err("panic")      \* split_at past the block
    ELSE IF offset * 12 + 12 > Len(slice) THEN Err("err")
    ELSE LET p == offset * 12 + 1
             fci == from_le_bytes(SubSeq(slice, p + 4, p + 5))
             cc == from_le_bytes(SubSeq(slice, p + 6, p + 7))
             leaf == parse_node_is_leaf(fci, cc, tree_size, tree_depth, current_depth)
         IN parse_node_result(slice, p, leaf,
                IF leaf THEN Ok(0, <<>>)
                ELSE parse_nodes(slice, tree_size, tree_depth, current_depth + 1,
                                 fci, cc, Ok(0, <<>>)))

(* A value parsed out of a block, placed at the position after the block. *)
at(e, p) == IF e.st # "ok" THEN e ELSE Ok(p, e.val)

AkDecisionTreeNode_read(b, s, name, tree_size, tree_depth) ==
    IF s.st # "ok" THEN s
    ELSE IF s.pos - 1 + tree_size > Len(b) THEN Err("panic")   \* split_at past the input
    ELSE field(s, name,
               at(parse_node(SubSeq(b, s.pos, s.pos + tree_size - 1),
                             tree_size, tree_depth, 0, 0),
                  s.pos + tree_size))

RECURSIVE TreeNodeCount(_)
RECURSIVE TreeNodesCount(_)
TreeNodesCount(nodes) ==
    IF nodes = <<>> THEN 0 ELSE TreeNodeCount(Head(nodes)) + TreeNodesCount(Tail(nodes))

TreeNodeCount(node) == 1 + TreeNodesCount(node.children)

(* ------------------------------------------------------------------ *)
(* Property bundles: a PropBundle is [id, value]; the variant fixes    *)
(* the id, the value is its 4 bytes as a number.                       *)
(* ------------------------------------------------------------------ *)
PropBundle_ids == 0 .. 72

RECURSIVE PropBundle_read_values(_, _, _, _)
PropBundle_read_values(b, p, prop_ids, results) ==
    IF prop_ids = <<>> THEN Ok(p, results)
    ELSE IF Head(prop_ids) \notin PropBundle_ids THEN Err("panic")   \* read_by_id
    ELSE IF p + 3 > Len(b) THEN Err("err")
    ELSE PropBundle_read_values(b, p + 4, Tail(prop_ids),
             Append(results, [id |-> Head(prop_ids),
                              value |-> from_le_bytes(SubSeq(b, p, p + 3))]))

(* The second loop of read_list, over the ids the first loop collected. *)
PropBundle_read_results(b, s) ==
    IF s.st # "ok" THEN s ELSE PropBundle_read_values(b, s.pos, s.val.prop_ids, <<>>)

PropBundle_read_list(b, s, name) ==
    field(s, name,
          PropBundle_read_results(b,
              scalars(b, u8(b, begin(s), "count"), "prop_ids", "count", 1, {})))

(* The 4-byte values one after another: byte k belongs to value
   (k - 1) \div 4 + 1. *)
PropBundle_write_values(values) ==
    [k \in 1 .. 4 * Len(values) |->
        u32_write(values[((k - 1) \div 4) + 1].value)[((k - 1) % 4) + 1]]

(* Variant of write_list that writes each tag next to its value; C13 must
   tell it from the original. *)
RECURSIVE PropBundle_write_pairs(_)
PropBundle_write_pairs(values) ==
    IF values = <<>> THEN <<>>
    ELSE <<Head(values).id>> \o u32_write(Head(values).value)
         \o PropBundle_write_pairs(Tail(values))

PropBundle_write_list_interleaved(values) ==
    u8_write(Len(values)) \o PropBundle_write_pairs(values)

PropBundle_write_list(values) ==
    u8_write(Len(values)) \o [i \in 1 .. Len(values) |-> values[i].id]
    \o PropBundle_write_values(values)

(* PropRangedModifiers is [count, entries]; an entry (PropRangedModifier:
   prop_type u8, min f32, max f32) is a block of 9 bytes. *)
PropRangedModifiers_read(b, s, name) ==
    field(s, name, blocks(b, u8(b, begin(s), "count"), "entries", "count", 9, {}))

PropRangedModifiers_write(m) == u8_write(m.count) \o blocks_write(m.entries)

(* ------------------------------------------------------------------ *)
(* NodeBaseParams and its parts.  A byte of bit-packed flags is        *)
(* carried as the byte, with the fields the schema tests read out of   *)
(* it.                                                                 *)
(* ------------------------------------------------------------------ *)
AkPropID_ids == (0 .. 8) \cup (11 .. 72)

AkRtpcAccum_ids == 0 .. 6

AkRtpcType_ids == 0 .. 2

AkCurveScaling_ids == {0, 2, 3, 4}

AkCurveInterpolation_ids == 0 .. 9

AkSyncType_ids == 0 .. 9

AkPathMode_ids == 0 .. 5

AkVirtualQueueBehavior_ids == 0 .. 2

AkBelowThresholdBehavior_ids == 0 .. 3

AkGroupType_ids == {0, 1}

AkDecisionTreeMode_ids == {0, 1}

SourceType_ids == 0 .. 2

(* NodeInitialFxParams: [is_override_parent_fx, fx_chunk_count, fx_bypass_bits,
   fx_chunks]; an FXChunk is a block of 7 bytes. *)
NodeInitialFxParams_fx_bypass_bits(b, s) ==
    IF s.st # "ok" THEN s
    ELSE IF s.val.fx_chunk_count = 0 THEN absent(s, "fx_bypass_bits", 0)
    ELSE u8(b, s, "fx_bypass_bits")

NodeInitialFxParams_read(b, s, name) ==
    field(s, name,
          blocks(b,
              NodeInitialFxParams_fx_bypass_bits(b,
                  u8(b, u8(b, begin(s), "is_override_parent_fx"), "fx_chunk_count")),
              "fx_chunks", "fx_chunk_count", 7, {}))

NodeInitialFxParams_write(v) ==
    u8_write(v.is_override_parent_fx) \o u8_write(v.fx_chunk_count)
    \o (IF v.fx_chunk_count = 0 THEN <<>> ELSE u8_write(v.fx_bypass_bits))
    \o blocks_write(v.fx_chunks)

(* NodeInitialParams: [prop_initial_values, prop_ranged_modifiers] *)
NodeInitialParams_read(b, s, name) ==
    field(s, name,
          PropRangedModifiers_read(b,
              PropBundle_read_list(b, begin(s), "prop_initial_values"),
              "prop_ranged_modifiers"))

NodeInitialParams_write(v) ==
    PropBundle_write_list(v.prop_initial_values)
    \o PropRangedModifiers_write(v.prop_ranged_modifiers)

(* PositioningParams: bits = unk1(1) three_dimensional_position_type(2)
   speaker_panning_type(3) listener_relative_routing(1) override_parent(1);
   listener_bits = five flags and three_dimensional_spatialization_mode(3).
   AkPathVertex is a block of 16 bytes, AkPathListItemOffset of 8,
   Ak3DAutomationParams of 12. *)
three_dimensional_position_type(v) == (v.bits \div 32) % 4

speaker_panning_type(v) == (v.bits \div 4) % 8

listener_relative_routing(v) == (v.bits \div 2) % 2 = 1

three_dimensional_spatialization_mode(v) == v.listener_bits % 8

PositioningParams_bits(b, s) ==
    IF u8(b, s, "bits").st # "ok" THEN u8(b, s, "bits")
    ELSE IF three_dimensional_position_type(u8(b, s, "bits").val) > 2
            \/ speaker_panning_type(u8(b, s, "bits").val) > 2 THEN Err("err")
    ELSE u8(b, s, "bits")

PositioningParams_listener_bits(b, s) ==
    IF s.st # "ok" THEN s
    ELSE IF ~listener_relative_routing(s.val) THEN absent(s, "listener_bits", 0)
    ELSE IF u8(b, s, "listener_bits").st # "ok" THEN u8(b, s, "listener_bits")
    ELSE IF three_dimensional_spatialization_mode(u8(b, s, "listener_bits").val) > 2
    THEN Err("err")
    ELSE u8(b, s, "listener_bits")

PositioningParams_path(b, s) ==
    IF s.st # "ok" THEN s
    ELSE IF three_dimensional_position_type(s.val) = 0       \* Emitter: all skipped
    THEN Ok(s.pos, [bits |-> s.val.bits, listener_bits |-> s.val.listener_bits,
                    path_mode |-> 0, transition_time |-> 0,
                    vertex_count |-> 0, vertices |-> <<>>,
                    path_list_item_count |-> 0,
                    path_list_item_offsets |-> <<>>,
                    three_dimensional_automation_params |-> <<>>])
    ELSE blocks(b,
             blocks(b,
                 u32(b,
                     blocks(b,
                         u32(b,
                             u32(b, enum(b, s, "path_mode", 1, AkPathMode_ids),
                                 "transition_time"),
                             "vertex_count"),
                         "vertices", "vertex_count", 16, {}),
                     "path_list_item_count"),
                 "path_list_item_offsets", "path_list_item_count", 8, {}),
             "three_dimensional_automation_params", "path_list_item_count", 12, {})

PositioningParams_read(b, s, name) ==
    field(s, name,
          PositioningParams_path(b,
              PositioningParams_listener_bits(b, PositioningParams_bits(b, begin(s)))))

PositioningParams_write(v) ==
    u8_write(v.bits)
    \o (IF listener_relative_routing(v) THEN u8_write(v.listener_bits) ELSE <<>>)
    \o (IF three_dimensional_position_type(v) = 0 THEN <<>>
        ELSE u8_write(v.path_mode) \o u32_write(v.transition_time)
             \o u32_write(v.vertex_count) \o blocks_write(v.vertices)
             \o u32_write(v.path_list_item_count) \o blocks_write(v.path_list_item_offsets)
             \o blocks_write(v.three_dimensional_automation_params))

(* AuxParams: bits = unk1 unk2 unk3 override_reflections_aux_bus has_aux
   override_user_aux_sends unk4(2); aux = <<aux1, aux2, aux3, aux4>>. *)
has_aux(v) == (v.bits \div 8) % 2 = 1

AuxParams_aux(b, s) ==
    IF s.st # "ok" THEN s
    ELSE IF has_aux(s.val) THEN field(s, "aux", scalars_read(b, s.pos, 4, 4, {}, <<>>))
    ELSE absent(s, "aux", <<0, 0, 0, 0>>)

AuxParams_read(b, s, name) ==
    field(s, name, u32(b, AuxParams_aux(b, u8(b, begin(s), "bits")), "reflections_aux_bus"))

AuxParams_write(v) ==
    u8_write(v.bits) \o (IF has_aux(v) THEN u32s_write(v.aux) ELSE <<>>)
    \o u32_write(v.reflections_aux_bus)

(* AdvSettingsParams: two bytes of flags around three scalars. *)
AdvSettingsParams_read(b, s, name) ==
    field(s, name,
          u8(b,
             enum(b,
                  u16(b,
                      enum(b, u8(b, begin(s), "bits1"),
                           "virtual_queue_behavior", 1, AkVirtualQueueBehavior_ids),
                      "max_instance_count"),
                  "below_threshold_behavior", 1, AkBelowThresholdBehavior_ids),
             "bits2"))

AdvSettingsParams_write(v) ==
    u8_write(v.bits1) \o u8_write(v.virtual_queue_behavior)
    \o u16_write(v.max_instance_count) \o u8_write(v.below_threshold_behavior)
    \o u8_write(v.bits2)

(* StateChunk: [state_property_count, state_property_info, state_group_count,
   state_group_chunks]; AkStatePropertyInfo (property, accum_type, in_db) is a
   block of 3 bytes; AkStateGroupChunk is [state_group_id, sync_type,
   state_count, states]; AkState is a block of 8 bytes. *)
AkStatePropertyInfo_checks ==
    {[at |-> 0, width |-> 1, ids |-> AkPropID_ids],
     [at |-> 1, width |-> 1, ids |-> AkRtpcAccum_ids]}

AkStateGroupChunk_read(b, s, name) ==
    field(s, name,
          blocks(b,
              u8(b,
                 enum(b, u32(b, begin(s), "state_group_id"),
                      "sync_type", 1, AkSyncType_ids),
                 "state_count"),
              "states", "state_count", 8, {}))

RECURSIVE AkStateGroupChunk_read_n(_, _, _)
AkStateGroupChunk_read_n(b, s, n) ==
    IF n = 0 \/ s.st # "ok" THEN s
    ELSE AkStateGroupChunk_read_n(b, AkStateGroupChunk_read(b, s, ""), n - 1)

StateChunk_state_group_chunks(b, s) ==
    IF s.st # "ok" THEN s
    ELSE field(s, "state_group_chunks",
               AkStateGroupChunk_read_n(b, begin(s), s.val.state_group_count))

StateChunk_read(b, s, name) ==
    field(s, name,
          StateChunk_state_group_chunks(b,
              u8(b,
                 blocks(b, u8(b, begin(s), "state_property_count"),
                        "state_property_info", "state_property_count", 3,
                        AkStatePropertyInfo_checks),
                 "state_group_count")))

RECURSIVE AkStateGroupChunk_write_all(_)
AkStateGroupChunk_write_all(vs) ==
    IF vs = <<>> THEN <<>>
    ELSE u32_write(Head(vs).state_group_id) \o u8_write(Head(vs).sync_type)
         \o u8_write(Head(vs).state_count) \o blocks_write(Head(vs).states)
         \o AkStateGroupChunk_write_all(Tail(vs))

StateChunk_write(v) ==
    u8_write(v.state_property_count) \o blocks_write(v.state_property_info)
    \o u8_write(v.state_group_count) \o AkStateGroupChunk_write_all(v.state_group_chunks)

(* InitialRTPC: [count, rtpcs]; RTPC is [id, rtpc_type, rtpc_accum, param_id,
   curve_id, curve_scaling, graph_point_count, graph_points]; AkRTPCGraphPoint
   (from f32, to f32, interpolation u32 enum) is a block of 12 bytes. *)
AkRTPCGraphPoint_checks == {[at |-> 8, width |-> 4, ids |-> AkCurveInterpolation_ids]}

RTPC_read(b, s, name) ==
    field(s, name,
          blocks(b,
              u16(b,
                  enum(b,
                       u32(b,
                           u8(b,
                              enum(b,
                                   enum(b, u32(b, begin(s), "id"),
                                        "rtpc_type", 1, AkRtpcType_ids),
                                   "rtpc_accum", 1, AkRtpcAccum_ids),
                              "param_id"),
                           "curve_id"),
                       "curve_scaling", 1, AkCurveScaling_ids),
                  "graph_point_count"),
              "graph_points", "graph_point_count", 12, AkRTPCGraphPoint_checks))

RECURSIVE RTPC_read_n(_, _, _)
RTPC_read_n(b, s, n) ==
    IF n = 0 \/ s.st # "ok" THEN s ELSE RTPC_read_n(b, RTPC_read(b, s, ""), n - 1)

InitialRTPC_rtpcs(b, s) ==
    IF s.st # "ok" THEN s ELSE field(s, "rtpcs", RTPC_read_n(b, begin(s), s.val.count))

InitialRTPC_read(b, s, name) ==
    field(s, name, InitialRTPC_rtpcs(b, u16(b, begin(s), "count")))

RECURSIVE RTPC_write_all(_)
RTPC_write_all(vs) ==
    IF vs = <<>> THEN <<>>
    ELSE u32_write(Head(vs).id) \o u8_write(Head(vs).rtpc_type)
         \o u8_write(Head(vs).rtpc_accum) \o u8_write(Head(vs).param_id)
         \o u32_write(Head(vs).curve_id) \o u8_write(Head(vs).curve_scaling)
         \o u16_write(Head(vs).graph_point_count) \o blocks_write(Head(vs).graph_points)
         \o RTPC_write_all(Tail(vs))

InitialRTPC_write(v) == u16_write(v.count) \o RTPC_write_all(v.rtpcs)

(* NodeBaseParams *)
NodeBaseParams_read(b, s, name) ==
    field(s, name,
      InitialRTPC_read(b,
      StateChunk_read(b,
      AdvSettingsParams_read(b,
      AuxParams_read(b,
      PositioningParams_read(b,
      NodeInitialParams_read(b,
      u8(b,
      u32(b,
      u32(b,
      u8(b,
      NodeInitialFxParams_read(b, begin(s), "node_initial_fx_parameters"),
      "override_attachment_params"),
      "override_bus_id"),
      "direct_parent_id"),
      "unknown_flags"),
      "node_initial_params"),
      "positioning_params"),
      "aux_params"),
      "adv_settings_params"),
      "state_chunk"),
      "initial_rtpc"))

NodeBaseParams_write(v) ==
    NodeInitialFxParams_write(v.node_initial_fx_parameters)
    \o u8_write(v.override_attachment_params) \o u32_write(v.override_bus_id)
    \o u32_write(v.direct_parent_id) \o u8_write(v.unknown_flags)
    \o NodeInitialParams_write(v.node_initial_params)
    \o PositioningParams_write(v.positioning_params)
    \o AuxParams_write(v.aux_params)
    \o AdvSettingsParams_write(v.adv_settings_params)
    \o StateChunk_write(v.state_chunk)
    \o InitialRTPC_write(v.initial_rtpc)


(* ------------------------------------------------------------------ *)
(* HIRC object bodies                                                  *)
(* ------------------------------------------------------------------ *)
(* The closed id table of PluginId. *)
PluginId_ids ==
    {0, 1, 65537, 76195, 131073, 132099, 135219, 141730, 196609, 200755,
     207267, 262145, 266291, 272802, 327681, 331827, 338339, 397363,
     458753, 462899, 524289, 589825, 593971, 655361, 720897, 786433,
     851969, 917505, 983041, 1048577, 1114113, 1179649, 1245185, 1310721,
     1376257, 1441793, 6553602, 6554418, 6619138, 6684674, 6750211,
     6754307, 6815747, 6881283, 6946819, 7077891, 7143427, 7208963,
     7209987, 7213059, 7274499, 7275523, 7340035, 7406595, 7472131,
     7536643, 7537667, 7602179, 7603203, 7668739, 7733251, 7734275,
     7798786, 7799811, 7864322, 7865347, 8192003, 8257539, 8323075,
     8454147, 8519683, 8585219, 8650755, 8847363, 8912899, 9043971,
     9109507, 9699330, 11145527, 11206659, 11403271, 11534343, 11599879,
     11730951, 11862023, 11993090, 12189699, 13107202, 26542082, 26542085,
     26804226, 26804229, 27267154, 33226759, 58982409, 72093811, 83298307,
     83363846, 83429379}

has_params(plugin) == plugin % 16 # 2

(* A struct of fixed-width scalars: one block. *)
block(b, s, name, width, checks) ==
    IF s.st # "ok" THEN s
    ELSE IF s.pos + width - 1 > Len(b) THEN Err("err")
    ELSE IF ~block_valid(SubSeq(b, s.pos, s.pos + width - 1), checks) THEN Err("err")
    ELSE field(s, name, Ok(s.pos + width, SubSeq(b, s.pos, s.pos + width - 1)))

(* AkBankSourceData: [plugin, source_type, media_information, params_size,
   params]; AkMediaInformation is a block of 9 bytes; params_size is skipped,
   on read and on write, when plugin.has_params() holds. *)
AkBankSourceData_params_size(b, s) ==
    IF s.st # "ok" THEN s
    ELSE IF has_params(s.val.plugin) THEN absent(s, "params_size", 0)
    ELSE u32(b, s, "params_size")

AkBankSourceData_read(b, s, name) ==
    field(s, name,
          scalars(b,
              AkBankSourceData_params_size(b,
                  block(b,
                        enum(b, enum(b, begin(s), "plugin", 4, PluginId_ids),
                             "source_type", 1, SourceType_ids),
                        "media_information", 9, {})),
              "params", "params_size", 1, {}))

AkBankSourceData_write(v) ==
    u32_write(v.plugin) \o u8_write(v.source_type) \o v.media_information
    \o (IF has_params(v.plugin) THEN <<>> ELSE u32_write(v.params_size))
    \o v.params

(* An object body carries its variant as the field kind. *)
CAkSound_read(b, s, name) ==
    field(s, name,
          NodeBaseParams_read(b,
              AkBankSourceData_read(b, absent(begin(s), "kind", "Sound"),
                                    "bank_source_data"),
              "node_base_params"))

CAkSound_write(v) ==
    AkBankSourceData_write(v.bank_source_data) \o NodeBaseParams_write(v.node_base_params)

CAkEvent_read(b, s, name) ==
    field(s, name,
          scalars(b, u8(b, absent(begin(s), "kind", "Event"), "action_count"),
                  "actions", "action_count", 4, {}))

CAkEvent_write(v) == u8_write(v.action_count) \o u32s_write(v.actions)

(* CAkAction: [action_type, external_id, is_bus, prop_bundle,
   ranged_modifiers, params].  CAkActionParams is chosen by action_type;
   the variants SetState (0x1204), SetSwitch (0x1901), Play (0x0403) and
   PlayEvent (0x2103) are modelled, the other 32 of the table are not. *)
CAkActionParams_ids ==
    {4612, 6401, 1027, 258, 259, 514, 770, 1538, 1539, 1794, 1795, 1796,
     1797, 1800, 1801, 2562, 2563, 2818, 2819, 2820, 2050, 2051, 2306,
     2307, 3586, 3587, 3842, 3843, 3844, 8194, 12290, 12292, 3074, 3330,
     3332, 8451}

CAkActionParams_deku_id(params) ==
    CASE params.kind = "SetState" -> 4612
      [] params.kind = "SetSwitch" -> 6401
      [] params.kind = "Play" -> 1027
      [] params.kind = "PlayEvent" -> 8451

CAkActionSetSwitch_read(b, s, name, kind) ==
    field(s, name,
          u32(b, u32(b, absent(begin(s), "kind", kind), "switch_group_id"),
              "switch_state_id"))

CAkActionPlay_read(b, s, name) ==
    field(s, name, u32(b, u8(b, absent(begin(s), "kind", "Play"), "fade_curve"), "bank_id"))

CAkActionParams_read(b, s, name, action_type) ==
    CASE action_type = 4612 -> CAkActionSetSwitch_read(b, s, name, "SetState")
      [] action_type = 6401 -> CAkActionSetSwitch_read(b, s, name, "SetSwitch")
      [] action_type = 1027 -> CAkActionPlay_read(b, s, name)
      [] action_type = 8451 -> field(s, name, absent(begin(s), "kind", "PlayEvent"))
      [] action_type \in CAkActionParams_ids \ {4612, 6401, 1027, 8451} -> Err("unmodelled")
      [] OTHER -> Err("err")

CAkActionParams_write(params) ==
    CASE params.kind \in {"SetState", "SetSwitch"} ->
             u32_write(params.switch_group_id) \o u32_write(params.switch_state_id)
      [] params.kind = "Play" -> u8_write(params.fade_curve) \o u32_write(params.bank_id)
      [] params.kind = "PlayEvent" -> <<>>

CAkAction_params(b, s) ==
    IF s.st # "ok" THEN s ELSE CAkActionParams_read(b, s, "params", s.val.action_type)

CAkAction_read(b, s, name) ==
    field(s, name,
          CAkAction_params(b,
              PropRangedModifiers_read(b,
                  PropBundle_read_list(b,
                      u8(b, u32(b, u16(b, absent(begin(s), "kind", "Action"),
                                       "action_type"), "external_id"), "is_bus"),
                      "prop_bundle"),
                  "ranged_modifiers")))

(* The action_type field is written as it stands; the params enum takes its
   id from the context and writes none. *)
CAkAction_write(v) ==
    u16_write(v.action_type) \o u32_write(v.external_id) \o u8_write(v.is_bus)
    \o PropBundle_write_list(v.prop_bundle) \o PropRangedModifiers_write(v.ranged_modifiers)
    \o CAkActionParams_write(v.params)

(* TodoObject (LFO and envelope modulators): size - 4 opaque bytes. *)
TodoObject_read(b, s, name, size, kind) ==
    IF s.st # "ok" THEN s
    ELSE IF size < 4 THEN Err("overflow")
    ELSE field(s, name, bytes(b, absent(begin(s), "kind", kind), "data", size - 4))

TodoObject_write(v) == v.data

(* The decision tree of a container: tree_size bytes, tree_depth levels. *)
decision_tree(b, s) ==
    IF s.st # "ok" THEN s
    ELSE AkDecisionTreeNode_read(b, s, "tree", s.val.tree_size, s.val.tree_depth)

CAkDialogueEvent_read(b, s, name) ==
    field(s, name,
      PropRangedModifiers_read(b,
      PropBundle_read_list(b,
      decision_tree(b,
      enum(b,
      u32(b,
      scalars(b,
      scalars(b,
      u32(b,
      u8(b, absent(begin(s), "kind", "DialogueEvent"), "probability"),
      "tree_depth"),
      "arguments", "tree_depth", 4, {}),
      "group_types", "tree_depth", 1, AkGroupType_ids),
      "tree_size"),
      "tree_mode", 1, AkDecisionTreeMode_ids)),
      "prop_bundle"),
      "ranged_modifiers"))

CAkDialogueEvent_write(v) ==
    u8_write(v.probability) \o u32_write(v.tree_depth) \o u32s_write(v.arguments)
    \o v.group_types \o u32_write(v.tree_size) \o u8_write(v.tree_mode)
    \o AkDecisionTreeNode_write(v.tree)
    \o PropBundle_write_list(v.prop_bundle)
    \o PropRangedModifiers_write(v.ranged_modifiers)

(* Children: [count, items]. *)
Children_read(b, s, name) ==
    field(s, name, scalars(b, u32(b, begin(s), "count"), "items", "count", 4, {}))

Children_write(v) == u32_write(v.count) \o u32s_write(v.items)

(* MusicNodeParams: [flags, node_base_params, children, meter_info,
   stinger_count, stingers]; AkMeterInfo is a block of 23 bytes, CAkStinger a
   block of 24 with sync_play_at (an AkSyncType) at offset 8. *)
CAkStinger_checks == {[at |-> 8, width |-> 4, ids |-> AkSyncType_ids]}

MusicNodeParams_read(b, s, name) ==
    field(s, name,
      blocks(b,
      u32(b,
      block(b,
      Children_read(b,
      NodeBaseParams_read(b,
      u8(b, begin(s), "flags"),
      "node_base_params"),
      "children"),
      "meter_info", 23, {}),
      "stinger_count"),
      "stingers", "stinger_count", 24, CAkStinger_checks))

MusicNodeParams_write(v) ==
    u8_write(v.flags) \o NodeBaseParams_write(v.node_base_params)
    \o Children_write(v.children) \o v.meter_info
    \o u32_write(v.stinger_count) \o blocks_write(v.stingers)

(* AkMusicTransitionRule: [source_transition_rule_count, source_ids,
   destination_transition_rule_count, destination_ids, source_transition_rule,
   destination_transition_rule, alloc_trans_object_flag, transition_object];
   AkMusicTransSrcRule is a block of 21 bytes, AkMusicTransDstRule of 26,
   AkMusicTransitionObject of 30. *)
AkMusicTransSrcRule_checks ==
    {[at |-> 4, width |-> 4, ids |-> AkCurveInterpolation_ids],
     [at |-> 12, width |-> 4, ids |-> AkSyncType_ids]}

AkMusicTransDstRule_checks == {[at |-> 4, width |-> 4, ids |-> AkCurveInterpolation_ids]}

AkMusicTransitionObject_checks ==
    {[at |-> 8, width |-> 4, ids |-> AkCurveInterpolation_ids],
     [at |-> 20, width |-> 4, ids |-> AkCurveInterpolation_ids]}

AkMusicTransitionObject_default == Zeros(30)

AkMusicTransitionRule_transition_object(b, s) ==
    IF s.st # "ok" THEN s
    ELSE IF s.val.alloc_trans_object_flag = 0
    THEN absent(s, "transition_object", AkMusicTransitionObject_default)
    ELSE block(b, s, "transition_object", 30, AkMusicTransitionObject_checks)

AkMusicTransitionRule_read(b, s, name) ==
    field(s, name,
      AkMusicTransitionRule_transition_object(b,
      u8(b,
      block(b,
      block(b,
      scalars(b,
      u32(b,
      scalars(b,
      u32(b, begin(s), "source_transition_rule_count"),
      "source_ids", "source_transition_rule_count", 4, {}),
      "destination_transition_rule_count"),
      "destination_ids", "destination_transition_rule_count", 4, {}),
      "source_transition_rule", 21, AkMusicTransSrcRule_checks),
      "destination_transition_rule", 26, AkMusicTransDstRule_checks),
      "alloc_trans_object_flag")))

RECURSIVE AkMusicTransitionRule_read_n(_, _, _)
AkMusicTransitionRule_read_n(b, s, n) ==
    IF n = 0 \/ s.st # "ok" THEN s
    ELSE AkMusicTransitionRule_read_n(b, AkMusicTransitionRule_read(b, s, ""), n - 1)

AkMusicTransitionRule_write(v) ==
    u32_write(v.source_transition_rule_count) \o u32s_write(v.source_ids)
    \o u32_write(v.destination_transition_rule_count) \o u32s_write(v.destination_ids)
    \o v.source_transition_rule \o v.destination_transition_rule
    \o u8_write(v.alloc_trans_object_flag)
    \o (IF v.alloc_trans_object_flag = 0 THEN <<>> ELSE v.transition_object)

RECURSIVE AkMusicTransitionRule_write_all(_)
AkMusicTransitionRule_write_all(vs) ==
    IF vs = <<>> THEN <<>>
    ELSE AkMusicTransitionRule_write(Head(vs)) \o AkMusicTransitionRule_write_all(Tail(vs))

(* MusicTransNodeParams: [music_node_params, transition_rule_count,
   transition_rules]. *)
MusicTransNodeParams_transition_rules(b, s) ==
    IF s.st # "ok" THEN s
    ELSE field(s, "transition_rules",
               AkMusicTransitionRule_read_n(b, begin(s), s.val.transition_rule_count))

MusicTransNodeParams_read(b, s, name) ==
    field(s, name,
          MusicTransNodeParams_transition_rules(b,
              u32(b, MusicNodeParams_read(b, begin(s), "music_node_params"),
                  "transition_rule_count")))

MusicTransNodeParams_write(v) ==
    MusicNodeParams_write(v.music_node_params) \o u32_write(v.transition_rule_count)
    \o AkMusicTransitionRule_write_all(v.transition_rules)

CAkMusicSwitchCntr_read(b, s, name) ==
    field(s, name,
      decision_tree(b,
      enum(b,
      u32(b,
      scalars(b,
      scalars(b,
      u32(b,
      u8(b,
      MusicTransNodeParams_read(b, absent(begin(s), "kind", "MusicSwitchContainer"),
                                "music_trans_node_params"),
      "continue_playback"),
      "tree_depth"),
      "arguments", "tree_depth", 4, {}),
      "group_types", "tree_depth", 1, AkGroupType_ids),
      "tree_size"),
      "tree_mode", 1, AkDecisionTreeMode_ids)))

CAkMusicSwitchCntr_write(v) ==
    MusicTransNodeParams_write(v.music_trans_node_params)
    \o u8_write(v.continue_playback) \o u32_write(v.tree_depth) \o u32s_write(v.arguments)
    \o v.group_types \o u32_write(v.tree_size) \o u8_write(v.tree_mode)
    \o AkDecisionTreeNode_write(v.tree)


(* ------------------------------------------------------------------ *)
(* HIRC objects and sections.  The model carries the object types      *)
(* Sound, Event, MusicSwitchContainer, DialogueEvent, LFOModulator and  *)
(* EnvelopeModulator and the sections BKHD, DIDX, DATA, HIRC and FXPR;  *)
(* the other tags of the two closed tables are reported as              *)
(* "unmodelled" and no input of the model carries them.                 *)
(* ------------------------------------------------------------------ *)
HIRCObjectBody_ids == 1 .. 22

HIRCObjectBody_deku_id(body) ==
    CASE body.kind = "Sound" -> 2
      [] body.kind = "Action" -> 3
      [] body.kind = "Event" -> 4
      [] body.kind = "MusicSwitchContainer" -> 12
      [] body.kind = "DialogueEvent" -> 15
      [] body.kind = "LFOModulator" -> 19
      [] body.kind = "EnvelopeModulator" -> 20

HIRCObjectBody_read(b, s, name, body_type, size) ==
    CASE body_type = 2 -> CAkSound_read(b, s, name)
      [] body_type = 3 -> CAkAction_read(b, s, name)
      [] body_type = 4 -> CAkEvent_read(b, s, name)
      [] body_type = 12 -> CAkMusicSwitchCntr_read(b, s, name)
      [] body_type = 15 -> CAkDialogueEvent_read(b, s, name)
      [] body_type = 19 -> TodoObject_read(b, s, name, size, "LFOModulator")
      [] body_type = 20 -> TodoObject_read(b, s, name, size, "EnvelopeModulator")
      [] body_type \in HIRCObjectBody_ids \ {2, 3, 4, 12, 15, 19, 20} -> Err("unmodelled")
      [] OTHER -> Err("err")

HIRCObjectBody_write(body) ==
    CASE body.kind = "Sound" -> CAkSound_write(body)
      [] body.kind = "Action" -> CAkAction_write(body)
      [] body.kind = "Event" -> CAkEvent_write(body)
      [] body.kind = "MusicSwitchContainer" -> CAkMusicSwitchCntr_write(body)
      [] body.kind = "DialogueEvent" -> CAkDialogueEvent_write(body)
      [] body.kind \in {"LFOModulator", "EnvelopeModulator"} -> TodoObject_write(body)

(* ObjectId is [tag |-> "Hash", hash]; read always yields the Hash variant. *)
(* ------------------------------------------------------------------ *)
(* FNV hash.  The hash is a Wrapping<u32>; a value of the full 32 bits *)
(* is held as its two 16-bit halves [hi, lo].  A str is the sequence   *)
(* of its bytes.                                                       *)
(* ------------------------------------------------------------------ *)
FNV_BASE == [hi |-> 33052, lo |-> 40389]         \* 2166136261 = 0x811C9DC5

FNV_PRIME == 16777619

(* Wrapping<u32> *= k, for k below 2^31 *)
Wrapping_mul(a, k) ==
    [hi |-> (((a.lo * (k % 65536)) \div 65536) + (a.hi * (k % 65536))
                + (a.lo * (k \div 65536))) % 65536,
     lo |-> (a.lo * (k % 65536)) % 65536]

RECURSIVE bitxor(_, _, _)
bitxor(x, y, bits) ==
    IF bits = 0 THEN 0
    ELSE (((x % 2) + (y % 2)) % 2) + 2 * bitxor(x \div 2, y \div 2, bits - 1)

(* Wrapping<u32> ^= byte as u32 *)
Wrapping_xor(a, byte) == [hi |-> a.hi, lo |-> bitxor(a.lo, byte, 16)]

to_ascii_lowercase(input) ==
    [i \in 1 .. Len(input) |-> IF input[i] \in 65 .. 90 THEN input[i] + 32 ELSE input[i]]

(* Variant of the loop of create_hash that XORs the byte in before it
   multiplies (FNV-1a); C16 must tell it from the original. *)
RECURSIVE create_hash_loop_xor_first(_, _)
create_hash_loop_xor_first(input_buffer, hash) ==
    IF input_buffer = <<>> THEN hash
    ELSE create_hash_loop_xor_first(Tail(input_buffer),
             Wrapping_mul(Wrapping_xor(hash, Head(input_buffer)), FNV_PRIME))

(* format crate *)
RECURSIVE create_hash_loop(_, _)
create_hash_loop(input_buffer, hash) ==
    IF input_buffer = <<>> THEN hash
    ELSE create_hash_loop(Tail(input_buffer),
             Wrapping_xor(Wrapping_mul(hash, FNV_PRIME), Head(input_buffer)))

create_hash(input) == create_hash_loop(to_ascii_lowercase(input), FNV_BASE)

(* analysis crate, fnv::create_hash *)
RECURSIVE fnv_create_hash_loop(_, _)
fnv_create_hash_loop(input_buffer, hash) ==
    IF input_buffer = <<>> THEN hash
    ELSE fnv_create_hash_loop(Tail(input_buffer),
             Wrapping_xor(Wrapping_mul(hash, FNV_PRIME), Head(input_buffer)))

fnv_create_hash(input) == fnv_create_hash_loop(to_ascii_lowercase(input), FNV_BASE)

(* ObjectId is [tag |-> "Hash", hash] or [tag |-> "String", string]; the
   banks of the model hold ids whose hash is below 2^31, as a number. *)
ObjectId_as_hash(id) ==
    IF id.tag = "String"
    THEN create_hash(id.string).hi * 65536 + create_hash(id.string).lo
    ELSE id.hash

ObjectId_write(id) == u32_write(ObjectId_as_hash(id))

ObjectId_Hash(e) == IF e.st # "ok" THEN e ELSE Ok(e.pos, [tag |-> "Hash", hash |-> e.val])

ObjectId_read(b, s, name) ==
    IF s.st # "ok" THEN s ELSE field(s, name, ObjectId_Hash(scalar_read(b, s.pos, 4, {})))

(* HIRCObject: [body_type, size, id, body]. *)
HIRCObject_body(b, s) ==
    IF s.st # "ok" THEN s ELSE HIRCObjectBody_read(b, s, "body", s.val.body_type, s.val.size)

HIRCObject_read(b, s, name) ==
    field(s, name,
          HIRCObject_body(b,
              ObjectId_read(b, u32(b, u8(b, begin(s), "body_type"), "size"), "id")))

HIRCObject_write(o) ==
    u8_write(o.body_type) \o u32_write(o.size) \o ObjectId_write(o.id)
    \o HIRCObjectBody_write(o.body)

RECURSIVE HIRCObject_read_n(_, _, _)
HIRCObject_read_n(b, s, n) ==
    IF n = 0 \/ s.st # "ok" THEN s ELSE HIRCObject_read_n(b, HIRCObject_read(b, s, ""), n - 1)

RECURSIVE HIRCObject_write_all(_)
HIRCObject_write_all(os) ==
    IF os = <<>> THEN <<>> ELSE HIRCObject_write(Head(os)) \o HIRCObject_write_all(Tail(os))

(* A section body carries its variant as the field kind. *)
HIRCSection_objects(b, s) ==
    IF s.st # "ok" THEN s
    ELSE field(s, "objects", HIRCObject_read_n(b, begin(s), s.val.object_count))

HIRCSection_read(b, s, name) ==
    field(s, name,
          HIRCSection_objects(b, u32(b, absent(begin(s), "kind", "HIRC"), "object_count")))

HIRCSection_write(v) == u32_write(v.object_count) \o HIRCObject_write_all(v.objects)

BKHDSection_padding(b, s, size) ==
    IF s.st # "ok" THEN s
    ELSE IF size < 20 THEN Err("overflow")             \* count = size - 20
    ELSE bytes(b, s, "padding", size - 20)

BKHDSection_read(b, s, name, size) ==
    field(s, name,
      BKHDSection_padding(b,
      u32(b,
      u32(b,
      u32(b,
      u32(b,
      u32(b, absent(begin(s), "kind", "BKHD"), "version"),
      "bank_id"),
      "language_fnv_hash"),
      "wem_alignment"),
      "project_id"),
      size))

BKHDSection_write(v) ==
    u32_write(v.version) \o u32_write(v.bank_id) \o u32_write(v.language_fnv_hash)
    \o u32_write(v.wem_alignment) \o u32_write(v.project_id) \o v.padding

(* Vec<DIDXDescriptor> with Limit::ByteSize(size): elements are read until
   the bytes read equal size exactly; a size that is no multiple of 12 is
   never met and the read runs into the end of the input.  A DIDXDescriptor
   (id, offset, size) is a block of 12 bytes. *)
RECURSIVE DIDXDescriptor_read_until(_, _, _, _)
DIDXDescriptor_read_until(b, p, stop, acc) ==
    IF p = stop THEN Ok(p, acc)
    ELSE IF p + 11 > Len(b) THEN Err("err")
    ELSE DIDXDescriptor_read_until(b, p + 12, stop, Append(acc, SubSeq(b, p, p + 11)))

DIDXSection_read(b, s, name, size) ==
    IF s.st # "ok" THEN s
    ELSE field(s, name,
               field(absent(begin(s), "kind", "DIDX"), "descriptors",
                     DIDXDescriptor_read_until(b, s.pos, s.pos + size, <<>>)))

DIDXSection_write(v) == blocks_write(v.descriptors)

DATASection_read(b, s, name, size) ==
    field(s, name, bytes(b, absent(begin(s), "kind", "DATA"), "data", size))

DATASection_write(v) == v.data

TodoSection_read(b, s, name, size) ==
    field(s, name, bytes(b, absent(begin(s), "kind", "FXPR"), "data", size))

TodoSection_write(v) == v.data

magic_BKHD == <<66, 75, 72, 68>>

magic_DIDX == <<68, 73, 68, 88>>

magic_DATA == <<68, 65, 84, 65>>

magic_HIRC == <<72, 73, 82, 67>>

magic_FXPR == <<70, 88, 80, 82>>

magic_unmodelled ==
    {<<69, 78, 86, 83>>, <<83, 84, 73, 68>>, <<83, 84, 77, 71>>, <<73, 78, 73, 84>>,
     <<80, 76, 65, 84>>}

SectionBody_deku_id(body) ==
    CASE body.kind = "BKHD" -> magic_BKHD
      [] body.kind = "DIDX" -> magic_DIDX
      [] body.kind = "DATA" -> magic_DATA
      [] body.kind = "HIRC" -> magic_HIRC
      [] body.kind = "FXPR" -> magic_FXPR

SectionBody_read(b, s, name, magic, size) ==
    CASE magic = magic_BKHD -> BKHDSection_read(b, s, name, size)
      [] magic = magic_DIDX -> DIDXSection_read(b, s, name, size)
      [] magic = magic_DATA -> DATASection_read(b, s, name, size)
      [] magic = magic_HIRC -> HIRCSection_read(b, s, name)
      [] magic = magic_FXPR -> TodoSection_read(b, s, name, size)
      [] magic \in magic_unmodelled -> Err("unmodelled")
      [] OTHER -> Err("err")

SectionBody_write(body) ==
    CASE body.kind = "BKHD" -> BKHDSection_write(body)
      [] body.kind = "DIDX" -> DIDXSection_write(body)
      [] body.kind = "DATA" -> DATASection_write(body)
      [] body.kind = "HIRC" -> HIRCSection_write(body)
      [] body.kind = "FXPR" -> TodoSection_write(body)

(* Section: [magic, size, body]. *)
Section_body(b, s) ==
    IF s.st # "ok" THEN s ELSE SectionBody_read(b, s, "body", s.val.magic, s.val.size)

Section_read(b, s, name) ==
    field(s, name, Section_body(b, u32(b, bytes(b, begin(s), "magic", 4), "size")))

Section_write(s) == s.magic \o u32_write(s.size) \o SectionBody_write(s.body)

(* Soundbank: [sections]; sections are read until the input is used up. *)
RECURSIVE Section_read_until_end(_, _)
Section_read_until_end(b, s) ==
    IF s.st # "ok" \/ s.pos > Len(b) THEN s
    ELSE Section_read_until_end(b, Section_read(b, s, ""))

RECURSIVE Section_write_all(_)
Section_write_all(ss) ==
    IF ss = <<>> THEN <<>> ELSE Section_write(Head(ss)) \o Section_write_all(Tail(ss))

Soundbank_read(b, s) ==
    field(begin(s), "sections", Section_read_until_end(b, begin(s)))

Soundbank_write(bank) == Section_write_all(bank.sections)

(* lib.rs: Soundbank::from_bytes((bytes, 0)).map(|r| r.1) *)
parse_soundbank(b) == Soundbank_read(b, Ok(1, <<>>))


(* ------------------------------------------------------------------ *)
(* Export preparation (export.rs).  A prepare step yields [st, val]:    *)
(* st is "ok", "err" (a DekuError from a failed try_into of a derived   *)
(* update) or "panic"; val is the value the step leaves behind: the     *)
(* steps work on the tree in place, so a step that fails leaves what    *)
(* the steps before it have done.                                       *)
(* ------------------------------------------------------------------ *)
POk(v) == [st |-> "ok", val |-> v]

PFail(s, v) == [st |-> s, val |-> v]

(* A derived update: a count field set to a length, by try_into. *)
update(r, name, value, max) ==
    IF r.st # "ok" THEN r
    ELSE IF value > max THEN PFail("err", r.val)
    ELSE POk([r.val EXCEPT ![name] = value])

(* The effect of a step on a field of the value under preparation. *)
set(r, name, e) ==
    IF r.st # "ok" THEN r
    ELSE [st |-> e.st, val |-> [r.val EXCEPT ![name] = e.val]]

(* The first step of a sequence of steps that failed. *)
first_failed(results) ==
    CHOOSE i \in DOMAIN results :
        /\ results[i].st # "ok"
        /\ \A j \in 1 .. (i - 1) : results[j].st = "ok"

(* A step applied to each element of a sequence, in order: results[i] is
   the step's result on the i-th element, originals[i].  The loop ends at
   the first step that fails; the elements after it are not touched. *)
each(results, originals) ==
    IF \E i \in DOMAIN results : results[i].st # "ok"
    THEN PFail(results[first_failed(results)].st,
               [i \in DOMAIN results |->
                   IF i <= first_failed(results) THEN results[i].val ELSE originals[i]])
    ELSE POk([i \in DOMAIN results |-> results[i].val])

(* A u32 count: the length of a sequence of the model always fits. *)
update_u32(r, name, value) == IF r.st # "ok" THEN r ELSE POk([r.val EXCEPT ![name] = value])

NodeInitialFxParams_update(v) == update(POk(v), "fx_chunk_count", Len(v.fx_chunks), 255)

PropRangedModifiers_update(v) == update(POk(v), "count", Len(v.entries), 255)

NodeInitialParams_prepare_export(v) ==
    set(POk(v), "prop_ranged_modifiers", PropRangedModifiers_update(v.prop_ranged_modifiers))

PositioningParams_update(v) ==
    update_u32(update_u32(POk(v), "vertex_count", Len(v.vertices)),
           "path_list_item_count", Len(v.path_list_item_offsets))

AkStateGroupChunk_update(v) == update(POk(v), "state_count", Len(v.states), 255)

StateChunk_update(r) ==
    IF r.st # "ok" THEN r
    ELSE update(update(r, "state_property_count", Len(r.val.state_property_info), 255),
                "state_group_count", Len(r.val.state_group_chunks), 255)

StateChunk_prepare_export(v) ==
    StateChunk_update(
        set(POk(v), "state_group_chunks",
            each([i \in 1 .. Len(v.state_group_chunks) |->
                     AkStateGroupChunk_update(v.state_group_chunks[i])], v.state_group_chunks)))

RTPC_update(v) == update(POk(v), "graph_point_count", Len(v.graph_points), 65535)

InitialRTPC_update(r) ==
    IF r.st # "ok" THEN r ELSE update(r, "count", Len(r.val.rtpcs), 65535)

InitialRTPC_prepare_export(v) ==
    InitialRTPC_update(
        set(POk(v), "rtpcs", each([i \in 1 .. Len(v.rtpcs) |-> RTPC_update(v.rtpcs[i])], v.rtpcs)))

NodeBaseParams_prepare_export(v) ==
    set(set(set(set(set(POk(v),
        "node_initial_fx_parameters",
            NodeInitialFxParams_update(v.node_initial_fx_parameters)),
        "node_initial_params", NodeInitialParams_prepare_export(v.node_initial_params)),
        "positioning_params", PositioningParams_update(v.positioning_params)),
        "state_chunk", StateChunk_prepare_export(v.state_chunk)),
        "initial_rtpc", InitialRTPC_prepare_export(v.initial_rtpc))

(* CAkSound: only node_base_params is prepared. *)
CAkSound_prepare_export(v) ==
    set(POk(v), "node_base_params", NodeBaseParams_prepare_export(v.node_base_params))

(* The params of the modelled variants and the action itself have no
   derived field: their update changes nothing. *)
CAkAction_prepare_export(v) ==
    set(POk(v), "ranged_modifiers", PropRangedModifiers_update(v.ranged_modifiers))

CAkEvent_update(v) == update(POk(v), "action_count", Len(v.actions), 255)

Children_update(v) == update_u32(POk(v), "count", Len(v.items))

MusicNodeParams_update(r) ==
    IF r.st # "ok" THEN r ELSE update_u32(r, "stinger_count", Len(r.val.stingers))

MusicNodeParams_prepare_export(v) ==
    MusicNodeParams_update(
        set(set(POk(v),
            "node_base_params", NodeBaseParams_prepare_export(v.node_base_params)),
            "children", Children_update(v.children)))

AkMusicTransitionRule_update(v) ==
    update_u32(update_u32(POk(v), "source_transition_rule_count", Len(v.source_ids)),
           "destination_transition_rule_count", Len(v.destination_ids))

MusicTransNodeParams_update(r) ==
    IF r.st # "ok" THEN r
    ELSE update_u32(r, "transition_rule_count", Len(r.val.transition_rules))

MusicTransNodeParams_prepare_export(v) ==
    MusicTransNodeParams_update(
        set(set(POk(v),
            "music_node_params", MusicNodeParams_prepare_export(v.music_node_params)),
            "transition_rules",
            each([i \in 1 .. Len(v.transition_rules) |->
                     AkMusicTransitionRule_update(v.transition_rules[i])], v.transition_rules)))

RECURSIVE AkDecisionTreeNode_prepare_export(_)
AkDecisionTreeNode_prepare_export(node) ==
    [node EXCEPT !.child_count = Len(node.children) % 65536,
                 !.children = [i \in 1 .. Len(node.children) |->
                                  AkDecisionTreeNode_prepare_export(node.children[i])]]

(* export.rs walks self.tree as a list of roots and samples the encoding of
   that list; the schema of bnk.rs holds one root, which is what is prepared
   and sampled here. *)
sample_tree_size(node) == Len(AkDecisionTreeNode_write(node))

CAkMusicSwitchCntr_update(r) ==
    IF r.st # "ok" THEN r
    ELSE update_u32(POk([r.val EXCEPT !.tree_size = sample_tree_size(r.val.tree)]),
                "tree_depth", Len(r.val.arguments))

CAkMusicSwitchCntr_prepare_export(v) ==
    CAkMusicSwitchCntr_update(
        set(set(POk(v),
            "music_trans_node_params",
                MusicTransNodeParams_prepare_export(v.music_trans_node_params)),
            "tree", POk(AkDecisionTreeNode_prepare_export(v.tree))))

(* CAkDialogueEvent: the tree's child counts, the ranged modifiers' count
   and tree_depth are set; tree_size is left as it was. *)
CAkDialogueEvent_update(r) ==
    IF r.st # "ok" THEN r ELSE update_u32(r, "tree_depth", Len(r.val.arguments))

CAkDialogueEvent_prepare_export(v) ==
    CAkDialogueEvent_update(
        set(set(POk(v),
            "tree", POk(AkDecisionTreeNode_prepare_export(v.tree))),
            "ranged_modifiers", PropRangedModifiers_update(v.ranged_modifiers)))

(* Variant of sample_hirc_body_size that leaves out the id field; C7 must
   tell it from the original. *)
sample_hirc_body_size_without_id(o) == Len(HIRCObjectBody_write(o.body))

sample_hirc_body_size(o) == Len(HIRCObjectBody_write(o.body)) + 4

HIRCObjectBody_prepare_export(body) ==
    CASE body.kind = "Sound" -> CAkSound_prepare_export(body)
      [] body.kind = "Action" -> CAkAction_prepare_export(body)
      [] body.kind = "Event" -> CAkEvent_update(body)
      [] body.kind = "MusicSwitchContainer" -> CAkMusicSwitchCntr_prepare_export(body)
      [] body.kind = "DialogueEvent" -> CAkDialogueEvent_prepare_export(body)
      [] body.kind \in {"LFOModulator", "EnvelopeModulator"} -> POk(body)

HIRCObject_update(r) ==
    IF r.st # "ok" THEN r
    ELSE POk([r.val EXCEPT !.size = sample_hirc_body_size(r.val),
                           !.body_type = HIRCObjectBody_deku_id(r.val.body)])

HIRCObject_prepare_export(o) ==
    HIRCObject_update(set(POk(o), "body", HIRCObjectBody_prepare_export(o.body)))

HIRCSection_update(r) ==
    IF r.st # "ok" THEN r ELSE update_u32(r, "object_count", Len(r.val.objects))

HIRCSection_prepare_export(v) ==
    HIRCSection_update(
        set(POk(v), "objects",
            each([i \in 1 .. Len(v.objects) |-> HIRCObject_prepare_export(v.objects[i])], v.objects)))

sample_section_body_size(s) == Len(SectionBody_write(s.body))

SectionBody_prepare_export(body) ==
    IF body.kind = "HIRC" THEN HIRCSection_prepare_export(body) ELSE POk(body)

Section_update(r) ==
    IF r.st # "ok" THEN r
    ELSE POk([r.val EXCEPT !.size = sample_section_body_size(r.val),
                           !.magic = SectionBody_deku_id(r.val.body)])

Section_prepare_export(s) ==
    Section_update(set(POk(s), "body", SectionBody_prepare_export(s.body)))

(* Variant of the section loop that leaves the sections in reverse order;
   C10 must tell it from the original. *)
Section_prepare_export_all_reversed(sections) ==
    each([i \in 1 .. Len(sections) |->
             Section_prepare_export(sections[Len(sections) + 1 - i])],
         [i \in 1 .. Len(sections) |-> sections[Len(sections) + 1 - i]])

Section_prepare_export_all(sections) ==
    each([i \in 1 .. Len(sections) |-> Section_prepare_export(sections[i])], sections)

(* Index of the first section whose body is of the kind, 0 if none. *)
find_section(sections, kind) ==
    IF \E i \in 1 .. Len(sections) : sections[i].body.kind = kind
    THEN CHOOSE i \in 1 .. Len(sections) :
             /\ sections[i].body.kind = kind
             /\ \A j \in 1 .. (i - 1) : sections[j].body.kind # kind
    ELSE 0

(* Variant of first_wem_offset that counts two section headers; C5 must
   tell it from the original. *)
first_wem_offset_two_headers(descriptor_count) == 8 * 2 + 20 + descriptor_count * 12

first_wem_offset(descriptor_count) == 8 * 3 + 20 + descriptor_count * 12

(* Variant of padding_size without the case of an offset that is aligned
   already; C4 must tell it from the original. *)
padding_size_always_remaining(offset, wem_alignment) ==
    (offset + (wem_alignment - (offset % wem_alignment))) - offset

padding_size(offset, wem_alignment) ==
    IF offset % wem_alignment = 0 THEN 0
    ELSE (offset + (wem_alignment - (offset % wem_alignment))) - offset

(* Variant of bkhd_padding that appends the zeros to the padding held; C2
   must tell it from the original. *)
bkhd_padding_appended(padding, size) == padding \o Zeros(size)

(* bkhd.padding = vec![0u8; padding_size] *)
bkhd_padding(padding, size) == Zeros(size)

(* The first part of Soundbank::prepare_export: the sections after the
   padding of the first BKHD section has been set. *)
Soundbank_prepare_padding(sections, didx, bkhd) ==
    IF didx = 0 THEN POk(sections)
    ELSE IF bkhd = 0 THEN PFail("panic", sections)                \* expect
    ELSE IF sections[bkhd].body.wem_alignment = 0 THEN PFail("panic", sections)   \* % 0
    ELSE POk([sections EXCEPT ![bkhd].body.padding =
                 bkhd_padding(@, padding_size(
                                     first_wem_offset(Len(sections[didx].body.descriptors)),
                                     sections[bkhd].body.wem_alignment))])

Soundbank_prepare_sections(r) ==
    IF r.st # "ok" THEN PFail(r.st, [sections |-> r.val])
    ELSE set(POk([sections |-> r.val]), "sections", Section_prepare_export_all(r.val))

Soundbank_prepare_export(bank) ==
    Soundbank_prepare_sections(
        Soundbank_prepare_padding(bank.sections, find_section(bank.sections, "DIDX"),
                                  find_section(bank.sections, "BKHD")))

(* lib.rs: prepare_soundbank unwraps, so an error becomes a panic. *)
unwrap(r) == IF r.st = "ok" THEN r ELSE PFail("panic", r.val)

prepare_soundbank(bank) == unwrap(Soundbank_prepare_export(bank))


(* ------------------------------------------------------------------ *)
(* Bounds and the banks the model is run on                            *)
(* ------------------------------------------------------------------ *)
MaxEdits == 2

MaxPrepares == 2

MaxDescriptors == 2

Alignments == {0, 1, 16}

Paddings == {<<>>, <<7, 7>>, Zeros(12)}

(* A section as a writer of bank files lays it out (magic and size agree
   with the body) and as handle_dir builds it (magic zeroed, size 0). *)
wire_section(body) ==
    [magic |-> SectionBody_deku_id(body), size |-> Len(SectionBody_write(body)),
     body |-> body]

new_section(body) == [magic |-> <<0, 0, 0, 0>>, size |-> 0, body |-> body]

wire_object(hash, body) ==
    [body_type |-> HIRCObjectBody_deku_id(body),
     size |-> Len(HIRCObjectBody_write(body)) + 4,
     id |-> [tag |-> "Hash", hash |-> hash], body |-> body]

bkhd(wem_alignment, padding) ==
    [kind |-> "BKHD", version |-> 141, bank_id |-> 1, language_fnv_hash |-> 2,
     wem_alignment |-> wem_alignment, project_id |-> 3, padding |-> padding]

(* DIDXDescriptor: id, offset, size *)
descriptor(i) == u32_write(i) \o u32_write(0) \o u32_write(3)

didx(n) == [kind |-> "DIDX", descriptors |-> [i \in 1 .. n |-> descriptor(i)]]

data(wems) == [kind |-> "DATA", data |-> wems]

hirc(objects) == [kind |-> "HIRC", object_count |-> Len(objects), objects |-> objects]

leaf(key, node_id) ==
    [key |-> key, node_id |-> node_id, first_child_index |-> 0, child_count |-> 0,
     weight |-> 50, probability |-> 100, children |-> <<>>]

inner(key, first_child_index, children) ==
    [key |-> key, node_id |-> 0, first_child_index |-> first_child_index,
     child_count |-> Len(children), weight |-> 50, probability |-> 100,
     children |-> children]

node_base_params ==
    [node_initial_fx_parameters |->
         [is_override_parent_fx |-> 0, fx_chunk_count |-> 1, fx_bypass_bits |-> 0,
          fx_chunks |-> <<<<0, 1, 0, 0, 0, 0, 0>>>>],
     override_attachment_params |-> 0, override_bus_id |-> 0, direct_parent_id |-> 9,
     unknown_flags |-> 0,
     node_initial_params |->
         [prop_initial_values |-> <<[id |-> 0, value |-> 1]>>,
          prop_ranged_modifiers |->
              [count |-> 1, entries |-> <<<<0>> \o u32_write(0) \o u32_write(1)>>]],
     positioning_params |->
         [bits |-> 32, listener_bits |-> 0, path_mode |-> 0, transition_time |-> 0,
          vertex_count |-> 1, vertices |-> <<Zeros(16)>>,
          path_list_item_count |-> 1, path_list_item_offsets |-> <<Zeros(8)>>,
          three_dimensional_automation_params |-> <<Zeros(12)>>],
     aux_params |-> [bits |-> 8, aux |-> <<1, 2, 3, 4>>, reflections_aux_bus |-> 0],
     adv_settings_params |->
         [bits1 |-> 0, virtual_queue_behavior |-> 0, max_instance_count |-> 0,
          below_threshold_behavior |-> 0, bits2 |-> 0],
     state_chunk |->
         [state_property_count |-> 1,
          state_property_info |-> <<<<0, 0, 0>>>>,
          state_group_count |-> 1,
          state_group_chunks |->
              <<[state_group_id |-> 1, sync_type |-> 0, state_count |-> 1,
                 states |-> <<Zeros(8)>>]>>],
     initial_rtpc |->
         [count |-> 1,
          rtpcs |-> <<[id |-> 1, rtpc_type |-> 0, rtpc_accum |-> 0, param_id |-> 0,
                       curve_id |-> 1, curve_scaling |-> 0, graph_point_count |-> 1,
                       graph_points |->
                           <<u32_write(0) \o u32_write(0) \o u32_write(4)>>]>>]]

sound(plugin, params) ==
    [kind |-> "Sound",
     bank_source_data |->
         [plugin |-> plugin, source_type |-> 0, media_information |-> Zeros(9),
          params_size |-> Len(params), params |-> params],
     node_base_params |-> node_base_params]

event(actions) == [kind |-> "Event", action_count |-> Len(actions), actions |-> actions]

action(action_type, params) ==
    [kind |-> "Action", action_type |-> action_type, external_id |-> 30, is_bus |-> 0,
     prop_bundle |-> <<[id |-> 0, value |-> 1]>>,
     ranged_modifiers |-> [count |-> 0, entries |-> <<>>], params |-> params]

play(bank_id) == [kind |-> "Play", fade_curve |-> 4, bank_id |-> bank_id]

set_switch(kind) == [kind |-> kind, switch_group_id |-> 40, switch_state_id |-> 41]

lfo_modulator(opaque) == [kind |-> "LFOModulator", data |-> opaque]

dialogue_event(arguments, tree) ==
    [kind |-> "DialogueEvent", probability |-> 100,
     tree_depth |-> Len(arguments), arguments |-> arguments,
     group_types |-> [i \in 1 .. Len(arguments) |-> 0],
     tree_size |-> 12 * TreeNodeCount(tree), tree_mode |-> 0, tree |-> tree,
     prop_bundle |-> <<[id |-> 5, value |-> 3]>>,
     ranged_modifiers |-> [count |-> 0, entries |-> <<>>]]

music_switch_cntr(arguments, tree) ==
    [kind |-> "MusicSwitchContainer",
     music_trans_node_params |->
         [music_node_params |->
              [flags |-> 0, node_base_params |-> node_base_params,
               children |-> [count |-> 1, items |-> <<5>>],
               meter_info |-> Zeros(23), stinger_count |-> 1,
               stingers |-> <<Zeros(24)>>],
          transition_rule_count |-> 1,
          transition_rules |->
              <<[source_transition_rule_count |-> 1, source_ids |-> <<1>>,
                 destination_transition_rule_count |-> 1, destination_ids |-> <<2>>,
                 source_transition_rule |-> Zeros(21),
                 destination_transition_rule |-> Zeros(26),
                 alloc_trans_object_flag |-> 0,
                 transition_object |-> AkMusicTransitionObject_default]>>],
     continue_playback |-> 0,
     tree_depth |-> Len(arguments), arguments |-> arguments,
     group_types |-> [i \in 1 .. Len(arguments) |-> 0],
     tree_size |-> 12 * TreeNodeCount(tree), tree_mode |-> 0, tree |-> tree]

(* Decision trees: a root with one leaf; a two-level tree whose depth-1
   leaf carries an audio node id above the tree size; the same with a
   small audio node id. *)
tree1 == inner(0, 1, <<leaf(5, 70000)>>)

tree2 == inner(0, 1, <<inner(5, 3, <<leaf(6, 70000)>>), leaf(7, 70001)>>)

tree2_small == inner(0, 1, <<inner(5, 3, <<leaf(6, 70000)>>), leaf(7, 2)>>)

objects ==
    <<wire_object(10, event(<<20, 21>>)),
      wire_object(11, sound(6553602, <<1, 2>>)),
      wire_object(12, music_switch_cntr(<<7>>, tree1)),
      wire_object(13, dialogue_event(<<7, 8>>, tree2)),
      wire_object(14, lfo_modulator(<<1, 2, 3>>))>>

actions ==
    <<wire_object(15, action(1027, play(1))),
      wire_object(16, action(8451, [kind |-> "PlayEvent"])),
      wire_object(17, action(4612, set_switch("SetState"))),
      wire_object(18, action(6401, set_switch("SetSwitch")))>>

(* Banks as trees: what a well-formed file decodes to. *)
Banks ==
    {<<wire_section(bkhd(16, <<>>))>>,
     <<wire_section(bkhd(16, <<>>)), wire_section(hirc(objects))>>,
     <<wire_section(bkhd(16, <<>>)),
       wire_section(hirc(<<wire_object(13, dialogue_event(<<7, 8>>, tree2_small))>>))>>,
     <<wire_section(bkhd(16, <<>>)), wire_section([kind |-> "FXPR", data |-> <<9>>])>>,
     <<wire_section(bkhd(16, <<>>)), wire_section(hirc(actions))>>,
     <<wire_section(didx(1)), wire_section(data(<<1, 2, 3>>))>>}
    \cup {<<wire_section(bkhd(a, p)), wire_section(didx(n)), wire_section(data(<<1, 2, 3>>))>> :
             a \in Alignments, p \in Paddings, n \in 0 .. MaxDescriptors}
    \cup {<<wire_section(bkhd(16, p)), wire_section(hirc(<<>>)), wire_section(didx(1)),
            wire_section(data(<<1, 2, 3>>))>> : p \in Paddings}
    \cup {<<wire_section(bkhd(16, p)), wire_section(didx(1))>> : p \in Paddings}
    \cup {<<wire_section(bkhd(16, p)), wire_section(data(<<1, 2, 3>>))>> : p \in Paddings}

(* Files: the banks as written, and files that differ from a written bank
   in one place: a declared size, a declared count, a tag, the tail. *)
with_size(section, size) == [section EXCEPT !.size = size]

Files ==
    {Section_write_all(t) : t \in Banks}
    \cup {<<>>,
          Section_write_all(<<with_size(wire_section(bkhd(16, <<>>)), 19)>>),
          Section_write_all(<<wire_section(bkhd(16, <<>>)),
                              with_size(wire_section(hirc(<<>>)), 99)>>),
          Section_write_all(<<wire_section(bkhd(16, <<>>)),
                              with_size(wire_section(didx(1)), 10)>>),
          Section_write_all(<<wire_section(bkhd(16, <<>>)),
              wire_section(hirc(<<[wire_object(14, lfo_modulator(<<>>))
                                      EXCEPT !.size = 3]>>))>>),
          Section_write_all(<<wire_section(bkhd(16, <<>>)),
              wire_section(hirc(<<[wire_object(9, lfo_modulator(<<>>))
                                      EXCEPT !.body_type = 23]>>))>>),
          Section_write_all(<<wire_section(bkhd(16, <<>>)),
              wire_section(hirc(<<wire_object(13,
                  [dialogue_event(<<7>>, tree1) EXCEPT !.tree_size = 200])>>))>>),
          Section_write_all(<<wire_section(bkhd(16, <<>>)),
              wire_section(hirc(<<[wire_object(10, event(<<20>>)) EXCEPT !.size = 50]>>))>>),
          Section_write_all(<<wire_section(bkhd(16, <<>>)),
              wire_section(hirc(<<wire_object(15, action(0, play(1)))>>))>>),
          Section_write_all(<<wire_section(bkhd(16, <<>>)),
              wire_section(hirc(<<wire_object(15, action(1028, play(1)))>>))>>),
          Section_write_all(<<wire_section(bkhd(16, <<>>))>>) \o <<88, 88, 88, 88, 0, 0, 0, 0>>,
          Section_write_all(<<wire_section(bkhd(16, <<>>))>>) \o <<72, 73>>}

(* More actions than the u8 action_count of an Event can count. *)
long_actions == [i \in 1 .. 256 |-> 20]

(* Trees a soundbank.json can hold: the banks above, the same with the
   derived fields of a freshly built section, a bank whose action has the
   params of one variant under the action_type of another, and a bank with
   an Event of 256 actions. *)
JsonBanks ==
    Banks \cup {[i \in 1 .. Len(t) |-> new_section(t[i].body)] : t \in Banks}
    \cup {<<wire_section(bkhd(16, <<>>)),
            wire_section(hirc(<<wire_object(18, action(1027, set_switch("SetSwitch")))>>))>>,
          <<new_section(bkhd(16, <<7, 7>>)), new_section(didx(1)),
            new_section(data(<<1, 2, 3>>)),
            new_section(hirc(<<wire_object(10, event(<<20>>)),
                               [body_type |-> 4, size |-> 0,
                                id |-> [tag |-> "Hash", hash |-> 19],
                                body |-> [event(long_actions) EXCEPT
                                             !.action_count = 255]]>>))>>}

(* ------------------------------------------------------------------ *)
(* The program as a state machine: a bank file is parsed               *)
(* (handle_soundbank) or a tree is loaded from soundbank.json          *)
(* (handle_dir), the tree is edited through its public fields,          *)
(* prepared for export and written.                                     *)
(*   pc      "start", "tree", "prepared", "encoded", "failed" (parse    *)
(*           returned an error) or "panicked"                           *)
(*   origin  "none", "file" or "json"                                   *)
(*   input   the bytes given to parse_soundbank                         *)
(*   bank    the in-memory Soundbank                                    *)
(*   prev    the Soundbank as it was before the last prepare            *)
(*   nprep   the number of prepare runs on the tree                     *)
(*   edits   the number of edits made to the tree                       *)
(*   output  the bytes written                                          *)
(* A run may instead call one function of the library on its own, as   *)
(* the tools fnv-hash and audio-routing and the readers of the parts   *)
(* of a bank do:                                                        *)
(*   called    the function called, or "none"                          *)
(*   argument  what it was called with                                  *)
(*   result    what it returned                                         *)
(* ------------------------------------------------------------------ *)
VARIABLES pc, origin, input, bank, prev, nprep, edits, output, called, argument, result

vars == <<pc, origin, input, bank, prev, nprep, edits, output, called, argument, result>>

call == <<called, argument, result>>

Init ==
    /\ pc = "start"
    /\ origin = "none"
    /\ input = <<>>
    /\ bank = [sections |-> <<>>]
    /\ prev = [sections |-> <<>>]
    /\ nprep = 0
    /\ edits = 0
    /\ output = <<>>
    /\ called = "none"
    /\ argument = <<>>
    /\ result = <<>>

(* What the caller sees for a read status: an unchecked subtraction that
   goes below zero panics in a build with overflow checks and otherwise
   wraps to a count the input cannot satisfy. *)
outcomes(st) ==
    CASE st = "ok" -> {"tree"}
      [] st = "err" -> {"failed"}
      [] st = "panic" -> {"panicked"}
      [] st = "overflow" -> {"panicked", "failed"}

parsed(b, r) ==
    /\ input' = b
    /\ pc' \in outcomes(r.st)
    /\ bank' = IF r.st = "ok" THEN r.val ELSE bank

Parse ==
    /\ pc = "start"
    /\ \E b \in Files : parsed(b, parse_soundbank(b))
    /\ origin' = "file"
    /\ UNCHANGED <<prev, nprep, edits, output, call>>

LoadJson ==
    /\ pc = "start"
    /\ \E t \in JsonBanks : bank' = [sections |-> t]
    /\ pc' = "tree"
    /\ origin' = "json"
    /\ UNCHANGED <<input, prev, nprep, edits, output, call>>

edit(new_bank) ==
    /\ bank' = new_bank
    /\ edits' = edits + 1
    /\ UNCHANGED <<pc, origin, input, prev, nprep, output, call>>

can_edit == pc = "tree" /\ edits < MaxEdits

PushDescriptor ==
    /\ can_edit
    /\ LET i == find_section(bank.sections, "DIDX")
       IN /\ i # 0
          /\ Len(bank.sections[i].body.descriptors) < MaxDescriptors
          /\ edit([bank EXCEPT !.sections[i].body.descriptors =
                       Append(@, descriptor(Len(@) + 1))])

SetPadding ==
    /\ can_edit
    /\ LET i == find_section(bank.sections, "BKHD")
       IN /\ i # 0
          /\ \E p \in Paddings \ {bank.sections[i].body.padding} :
                edit([bank EXCEPT !.sections[i].body.padding = p])

RemoveSection ==
    /\ can_edit
    /\ \E i \in 1 .. Len(bank.sections) :
          edit([bank EXCEPT !.sections =
                   SubSeq(@, 1, i - 1) \o SubSeq(@, i + 1, Len(@))])

SwapSections ==
    /\ can_edit
    /\ \E i \in 1 .. (Len(bank.sections) - 1) :
          edit([bank EXCEPT !.sections =
                   [@ EXCEPT ![i] = bank.sections[i + 1], ![i + 1] = bank.sections[i]]])

(* Edits of the objects of the first HIRC section. *)
hirc_index == find_section(bank.sections, "HIRC")

hirc_objects == bank.sections[hirc_index].body.objects

edit_object(j, body) ==
    edit([bank EXCEPT !.sections[hirc_index].body.objects[j].body = body])

PushTreeChild ==
    /\ can_edit /\ hirc_index # 0
    /\ \E j \in 1 .. Len(hirc_objects) :
          /\ hirc_objects[j].body.kind \in {"MusicSwitchContainer", "DialogueEvent"}
          /\ edit_object(j, [hirc_objects[j].body EXCEPT !.tree.children =
                                Append(@, leaf(9, 70002))])

PopTreeChild ==
    /\ can_edit /\ hirc_index # 0
    /\ \E j \in 1 .. Len(hirc_objects) :
          /\ hirc_objects[j].body.kind \in {"MusicSwitchContainer", "DialogueEvent"}
          /\ hirc_objects[j].body.tree.children # <<>>
          /\ edit_object(j, [hirc_objects[j].body EXCEPT !.tree.children =
                                SubSeq(@, 1, Len(@) - 1)])

PushArgument ==
    /\ can_edit /\ hirc_index # 0
    /\ \E j \in 1 .. Len(hirc_objects) :
          /\ hirc_objects[j].body.kind \in {"MusicSwitchContainer", "DialogueEvent"}
          /\ edit_object(j, [hirc_objects[j].body EXCEPT !.arguments = Append(@, 8)])

PushAction ==
    /\ can_edit /\ hirc_index # 0
    /\ \E j \in 1 .. Len(hirc_objects) :
          /\ hirc_objects[j].body.kind = "Event"
          /\ edit_object(j, [hirc_objects[j].body EXCEPT !.actions = Append(@, 22)])

SetParams ==
    /\ can_edit /\ hirc_index # 0
    /\ \E j \in 1 .. Len(hirc_objects) :
          /\ hirc_objects[j].body.kind = "Sound"
          /\ \E ps \in {<<>>, <<1, 2, 3>>} \ {hirc_objects[j].body.bank_source_data.params} :
                edit_object(j, [hirc_objects[j].body EXCEPT
                                   !.bank_source_data.params = ps])

PushState ==
    /\ can_edit /\ hirc_index # 0
    /\ \E j \in 1 .. Len(hirc_objects) :
          /\ hirc_objects[j].body.kind = "Sound"
          /\ edit_object(j, [hirc_objects[j].body EXCEPT
                 !.node_base_params.state_chunk.state_group_chunks[1].states =
                     Append(@, Zeros(8)),
                 !.node_base_params.initial_rtpc.rtpcs[1].graph_points =
                     Append(@, u32_write(1) \o u32_write(1) \o u32_write(4))])

(* prepare works on the tree in place: what a failed run has done stays. *)
prepared(r) ==
    /\ bank' = r.val
    /\ pc' = IF r.st = "ok" THEN "prepared" ELSE "panicked"

Prepare ==
    /\ pc \in {"tree", "prepared"}
    /\ nprep < MaxPrepares
    /\ prepared(prepare_soundbank(bank))
    /\ prev' = bank
    /\ nprep' = nprep + 1
    /\ UNCHANGED <<origin, input, edits, output, call>>

Encode ==
    /\ pc = "prepared"
    /\ output' = Soundbank_write(bank)
    /\ pc' = "encoded"
    /\ UNCHANGED <<origin, input, bank, prev, nprep, edits, call>>

(* A function called on its own: the run ends when it returns, or aborts
   when it panics. *)
returned(name, arg, res, panicked) ==
    /\ pc = "start"
    /\ called' = name
    /\ argument' = arg
    /\ result' = res
    /\ pc' = IF panicked THEN "panicked" ELSE "returned"
    /\ UNCHANGED <<origin, input, bank, prev, nprep, edits, output>>

(* Property bundles given to write_list, and byte blocks given to read_list:
   bundles as written, a block with bytes after the bundle, blocks that end
   early, a block with a tag outside the table. *)
PropLists ==
    {<<>>,
     <<[id |-> 0, value |-> 1065353216], [id |-> 70, value |-> 42]>>,
     <<[id |-> 70, value |-> 42], [id |-> 0, value |-> 1065353216]>>,
     <<[id |-> 5, value |-> 3]>>,
     <<[id |-> 7, value |-> 1], [id |-> 7, value |-> 2], [id |-> 72, value |-> 65536]>>}

PropBlocks ==
    {PropBundle_write_list(values) : values \in PropLists}
    \cup {PropBundle_write_list(values) \o <<9, 9>> : values \in PropLists}
    \cup {<<>>, <<2, 0>>, <<1, 5, 1, 2>>, <<1, 73, 0, 0, 0, 0>>, <<1, 255>>,
          <<2, 0, 200, 0, 0, 128, 63, 42, 0, 0, 0>>}

(* A bundle with one entry more than a u8 count holds. *)
LongPropList == [i \in 1 .. 256 |-> [id |-> 0, value |-> i]]

PropBundle_write_list_call ==
    \E values \in PropLists \cup {LongPropList} :
        returned("PropBundle::write_list", values, PropBundle_write_list(values), FALSE)

PropBundle_read_list_call ==
    \E b \in PropBlocks :
        returned("PropBundle::read_list", b,
                 PropBundle_read_results(b, scalars(b, u8(b, Ok(1, <<>>), "count"),
                                                    "prop_ids", "count", 1, {})),
                 PropBundle_read_results(b, scalars(b, u8(b, Ok(1, <<>>), "count"),
                                                    "prop_ids", "count", 1, {})).st = "panic")

(* ------------------------------------------------------------------ *)
(* Audio routing (analysis crate): the nodes an object outputs to.     *)
(* An Option is [tag |-> "None"] or [tag |-> "Some", value |-> v].     *)
(* ------------------------------------------------------------------ *)
None == [tag |-> "None"]

Some(v) == [tag |-> "Some", value |-> v]

CAkSound_outputs_to(b) ==
    IF b.node_base_params.override_bus_id # 0
    THEN <<b.node_base_params.override_bus_id>>
    ELSE <<b.node_base_params.direct_parent_id>>

CAkRanSeqCntr_outputs_to(b) ==
    IF b.node_base_params.override_bus_id # 0
    THEN <<b.node_base_params.override_bus_id>>
    ELSE <<b.node_base_params.direct_parent_id>>

CAkSwitchCntr_outputs_to(b) ==
    IF b.node_base_params.override_bus_id # 0
    THEN <<b.node_base_params.override_bus_id>>
    ELSE <<b.node_base_params.direct_parent_id>>

CAkActorMixer_outputs_to(b) ==
    IF b.node_base_params.override_bus_id # 0
    THEN <<b.node_base_params.override_bus_id>>
    ELSE <<b.node_base_params.direct_parent_id>>

(* Variant of CAkBus::outputs_to that falls back to a parent of id 0; C15
   must tell it from the original. *)
CAkBus_outputs_to_parent(b) ==
    IF b.initial_values.override_bus_id # 0
    THEN <<b.initial_values.override_bus_id>>
    ELSE <<0>>

CAkBus_outputs_to(b) ==
    IF b.initial_values.override_bus_id # 0
    THEN <<b.initial_values.override_bus_id>>
    ELSE <<>>

CAkLayerCntr_outputs_to(b) ==
    IF b.node_base_params.override_bus_id # 0
    THEN <<b.node_base_params.override_bus_id>>
    ELSE <<b.node_base_params.direct_parent_id>>

CAkMusicSegment_outputs_to(b) ==
    IF b.music_node_params.node_base_params.override_bus_id # 0
    THEN <<b.music_node_params.node_base_params.override_bus_id>>
    ELSE <<b.music_node_params.node_base_params.direct_parent_id>>

CAkMusicTrack_outputs_to(b) ==
    IF b.node_base_params.override_bus_id # 0
    THEN <<b.node_base_params.override_bus_id>>
    ELSE <<b.node_base_params.direct_parent_id>>

CAkMusicSwitchCntr_outputs_to(b) ==
    IF b.music_trans_node_params.music_node_params.node_base_params.override_bus_id # 0
    THEN <<b.music_trans_node_params.music_node_params.node_base_params.override_bus_id>>
    ELSE <<b.music_trans_node_params.music_node_params.node_base_params.direct_parent_id>>

CAkMusicRanSeqCntr_outputs_to(b) ==
    IF b.music_trans_node_params.music_node_params.node_base_params.override_bus_id # 0
    THEN <<b.music_trans_node_params.music_node_params.node_base_params.override_bus_id>>
    ELSE <<b.music_trans_node_params.music_node_params.node_base_params.direct_parent_id>>

CAkAuxBus_outputs_to(b) ==
    IF b.initial_values.override_bus_id # 0
    THEN <<b.initial_values.override_bus_id>>
    ELSE <<>>

get_output_nodes(a) ==
    CASE a.body.kind = "Sound" -> Some(CAkSound_outputs_to(a.body))
      [] a.body.kind = "RandomSequenceContainer" -> Some(CAkRanSeqCntr_outputs_to(a.body))
      [] a.body.kind = "SwitchContainer" -> Some(CAkSwitchCntr_outputs_to(a.body))
      [] a.body.kind = "ActorMixer" -> Some(CAkActorMixer_outputs_to(a.body))
      [] a.body.kind = "Bus" -> Some(CAkBus_outputs_to(a.body))
      [] a.body.kind = "LayerContainer" -> Some(CAkLayerCntr_outputs_to(a.body))
      [] a.body.kind = "MusicSegment" -> Some(CAkMusicSegment_outputs_to(a.body))
      [] a.body.kind = "MusicTrack" -> Some(CAkMusicTrack_outputs_to(a.body))
      [] a.body.kind = "MusicSwitchContainer" -> Some(CAkMusicSwitchCntr_outputs_to(a.body))
      [] a.body.kind = "MusicRandomSequenceContainer" ->
             Some(CAkMusicRanSeqCntr_outputs_to(a.body))
      [] a.body.kind = "AuxiliaryBus" -> Some(CAkAuxBus_outputs_to(a.body))
      [] OTHER -> None

(* The objects get_output_nodes is called with: every kind of HIRC object,
   with the two ids it routes by zero or not.  Only the fields routing
   reads are held. *)
BusIds == {0, 5}

ParentIds == {0, 77}

NodeKinds == {"Sound", "RandomSequenceContainer", "SwitchContainer", "ActorMixer",
              "LayerContainer", "MusicTrack"}

MusicNodeKinds == {"MusicSegment"}

MusicTransNodeKinds == {"MusicSwitchContainer", "MusicRandomSequenceContainer"}

BusKinds == {"Bus", "AuxiliaryBus"}

UnroutedKinds == {"State", "Action", "Event", "Attenuation", "DialogueEvent",
                  "EffectShareSet", "EffectCustom", "LFOModulator", "EnvelopeModulator",
                  "AudioDevice", "TimeModulator"}

routing_params(bus, parent) == [override_bus_id |-> bus, direct_parent_id |-> parent]

routed(kind, body) == [id |-> [tag |-> "Hash", hash |-> 1], body |-> body @@ [kind |-> kind]]

RoutingObjects ==
    {routed(k, [node_base_params |-> routing_params(bus, parent)]) :
        k \in NodeKinds, bus \in BusIds, parent \in ParentIds}
    \cup {routed(k, [music_node_params |-> [node_base_params |-> routing_params(bus, parent)]]) :
             k \in MusicNodeKinds, bus \in BusIds, parent \in ParentIds}
    \cup {routed(k, [music_trans_node_params |->
                         [music_node_params |->
                              [node_base_params |-> routing_params(bus, parent)]]]) :
             k \in MusicTransNodeKinds, bus \in BusIds, parent \in ParentIds}
    \cup {routed(k, [initial_values |-> [override_bus_id |-> bus]]) :
             k \in BusKinds, bus \in BusIds}
    \cup {routed(k, [data |-> <<>>]) : k \in UnroutedKinds}

get_output_nodes_call ==
    \E a \in RoutingObjects : returned("get_output_nodes", a, get_output_nodes(a), FALSE)

(* The strings hashed: names as a dictionary lists them, the same in other
   letter case, the empty string, single letters and the bytes next to the
   letters. *)
Play_c407001000 == <<80, 108, 97, 121, 95, 99, 52, 48, 55, 48, 48, 49, 48, 48, 48>>

PLAY_c407001000 == <<80, 76, 65, 89, 95, 99, 52, 48, 55, 48, 48, 49, 48, 48, 48>>

play_c407001000 == <<112, 108, 97, 121, 95, 99, 52, 48, 55, 48, 48, 49, 48, 48, 48>>

Names ==
    {Play_c407001000, PLAY_c407001000, play_c407001000,
     <<>>, <<97>>, <<65>>, <<90>>, <<122>>, <<64>>, <<96>>, <<91>>, <<123>>,
     <<102, 111, 111, 98, 97, 114>>, <<70, 79, 79, 98, 97, 114>>,
     <<35, 120>>, <<80, 108, 97, 121>>, <<112, 108, 97, 121>>}

(* ObjectId::String(s).as_hash() of the format crate, and the fnv-hash tool
   of the analysis crate. *)
as_hash_call ==
    \E s \in Names : returned("create_hash", s, create_hash(s), FALSE)

fnv_hash_call ==
    \E s \in Names : returned("fnv::create_hash", s, fnv_create_hash(s), FALSE)

(* ------------------------------------------------------------------ *)
(* Dictionaries: a map from the hash of a name to the name.  A         *)
(* HashMap is a function on the set of its keys; collect inserts the   *)
(* pairs in order, a later pair replacing an earlier one of its key.   *)
(* ------------------------------------------------------------------ *)
strip_carriage_return(line) ==
    IF line # <<>> /\ line[Len(line)] = 13 THEN SubSeq(line, 1, Len(line) - 1) ELSE line

(* str::lines: the pieces between line feeds, each without the carriage
   return before its line feed; no piece after a final line feed. *)
RECURSIVE lines_loop(_, _, _)
lines_loop(text, line, acc) ==
    IF text = <<>> THEN (IF line = <<>> THEN acc ELSE Append(acc, line))
    ELSE IF Head(text) = 10
    THEN lines_loop(Tail(text), <<>>, Append(acc, strip_carriage_return(line)))
    ELSE lines_loop(Tail(text), Append(line, Head(text)), acc)

lines(text) == lines_loop(text, <<>>, <<>>)

is_empty(l) == l = <<>>

starts_with_hash(l) == l # <<>> /\ l[1] = 35

RECURSIVE collect(_, _)
collect(pairs, map) ==
    IF pairs = <<>> THEN map
    ELSE collect(Tail(pairs), (Head(pairs)[1] :> Head(pairs)[2]) @@ map)

parse_dictionary_filter(l) == ~is_empty(l) /\ ~starts_with_hash(l)

(* bnk2json: the key is ObjectId::String(l).as_hash(), which is
   create_hash(l). *)
RECURSIVE parse_dictionary_map(_)
parse_dictionary_map(ls) ==
    IF ls = <<>> THEN <<>>
    ELSE <<(<<create_hash(Head(ls)), Head(ls)>>)>> \o parse_dictionary_map(Tail(ls))

parse_dictionary(text) ==
    collect(parse_dictionary_map(SelectSeq(lines(text), parse_dictionary_filter)), <<>>)

(* analysis crate: the filter keeps a line that is not empty or does not
   start with '#'. *)
dictionary_parse_dictionary_filter(l) == ~is_empty(l) \/ ~starts_with_hash(l)

RECURSIVE dictionary_parse_dictionary_map(_)
dictionary_parse_dictionary_map(ls) ==
    IF ls = <<>> THEN <<>>
    ELSE <<(<<fnv_create_hash(Head(ls)), Head(ls)>>)>>
            \o dictionary_parse_dictionary_map(Tail(ls))

dictionary_parse_dictionary(text) ==
    collect(dictionary_parse_dictionary_map(
                SelectSeq(lines(text), dictionary_parse_dictionary_filter)), <<>>)

(* Dictionary files: names, comment lines, blank lines, line feeds with and
   without carriage return, with and without a final line feed. *)
Dictionaries ==
    {<<>>,
     <<10>>,
     Play_c407001000 \o <<10>>,
     <<35, 120, 10>> \o <<80, 108, 97, 121, 10>>,
     <<80, 108, 97, 121, 10, 10>> \o <<102, 111, 111, 98, 97, 114>>,
     <<80, 108, 97, 121, 13, 10>> \o <<102, 111, 111, 98, 97, 114, 13, 10>>,
     <<35, 10>> \o Play_c407001000,
     <<97, 10, 90, 10, 64, 10>>}

parse_dictionary_call ==
    \E d \in Dictionaries : returned("parse_dictionary", d, parse_dictionary(d), FALSE)

dictionary_parse_dictionary_call ==
    \E d \in Dictionaries :
        returned("dictionary::parse_dictionary", d, dictionary_parse_dictionary(d), FALSE)

(* ------------------------------------------------------------------ *)
(* Directory to bank (bnk2json handle_dir): the tree of soundbank.json *)
(* gets a DIDX and a DATA section rebuilt from the .wem files of the   *)
(* directory, is prepared and written.  A directory listing is a       *)
(* sequence of [name, bytes], in the order read_dir yields the files.  *)
(* ------------------------------------------------------------------ *)
wem_suffix == <<46, 119, 101, 109>>                             \* ".wem"

ends_with(f, suffix) ==
    Len(f) >= Len(suffix) /\ SubSeq(f, Len(f) - Len(suffix) + 1, Len(f)) = suffix

is_wem(file) == ends_with(file.name, wem_suffix)

(* str::replace(".wem", ""): every occurrence is removed, left to right. *)
RECURSIVE replace_wem(_)
replace_wem(f) ==
    IF f = <<>> THEN <<>>
    ELSE IF Len(f) >= 4 /\ SubSeq(f, 1, 4) = wem_suffix THEN replace_wem(SubSeq(f, 5, Len(f)))
    ELSE <<Head(f)>> \o replace_wem(Tail(f))

(* str::parse::<u32>: an optional '+', then decimal digits and nothing
   else.  The names of the model have at most 9 digits, so no value is
   above u32::MAX. *)
RECURSIVE parse_digits(_, _)
parse_digits(str, acc) ==
    IF str = <<>> THEN Some(acc)
    ELSE IF Head(str) \notin 48 .. 57 THEN None
    ELSE parse_digits(Tail(str), (acc * 10) + (Head(str) - 48))

parse_u32(str) ==
    IF str = <<>> THEN None
    ELSE IF Head(str) = 43
    THEN (IF Tail(str) = <<>> THEN None ELSE parse_digits(Tail(str), 0))
    ELSE parse_digits(str, 0)

wem_id(file) == parse_u32(replace_wem(file.name))

(* sort_by on the parsed ids: a stable sort. *)
RECURSIVE sort_insert(_, _)
sort_insert(sorted, file) ==
    IF sorted = <<>> THEN <<file>>
    ELSE IF wem_id(file).value < wem_id(Head(sorted)).value THEN <<file>> \o sorted
    ELSE <<Head(sorted)>> \o sort_insert(Tail(sorted), file)

RECURSIVE sort_wems(_)
sort_wems(wems) ==
    IF wems = <<>> THEN <<>>
    ELSE sort_insert(sort_wems(SubSeq(wems, 1, Len(wems) - 1)), wems[Len(wems)])

RECURSIVE bitand(_, _, _)
bitand(x, y, bits) ==
    IF bits = 0 THEN 0
    ELSE ((x % 2) * (y % 2)) + 2 * bitand(x \div 2, y \div 2, bits - 1)

(* (current_pos + wem_alignment - 1) & !(wem_alignment - 1): x & !m is x
   without the bits it shares with m. *)
padded_position(current_pos, wem_alignment) ==
    (current_pos + wem_alignment - 1)
    - bitand(current_pos + wem_alignment - 1, wem_alignment - 1, 32)

bytes_to_pad(current_pos, wem_alignment) ==
    padded_position(current_pos, wem_alignment) - current_pos

(* The loop over the sorted wems: the cursor is at the end of data. *)
RECURSIVE rebuild_loop(_, _, _, _)
rebuild_loop(wems, wem_alignment, descriptors, buffer) ==
    IF wems = <<>> THEN [descriptors |-> descriptors, data |-> buffer]
    ELSE rebuild_loop(Tail(wems), wem_alignment,
             Append(descriptors,
                    u32_write(wem_id(Head(wems)).value) \o u32_write(Len(buffer))
                    \o u32_write(Len(Head(wems).bytes))),
             buffer \o Head(wems).bytes
             \o (IF Tail(wems) # <<>>
                 THEN Zeros(bytes_to_pad(Len(buffer) + Len(Head(wems).bytes), wem_alignment))
                 ELSE <<>>))

rotate_left(v, k) == SubSeq(v, k + 1, Len(v)) \o SubSeq(v, 1, k)

rotate_right(v, k) == SubSeq(v, Len(v) - k + 1, Len(v)) \o SubSeq(v, 1, Len(v) - k)

(* sections.push(s); sections.rotate_right(1) *)
push_front(sections, s) == rotate_right(Append(sections, s), 1)

(* The section handle_dir takes for the BKHD: rotate_left(1), then pop. *)
popped(sections) == rotate_left(sections, 1)[Len(sections)]

after_pop(sections) == SubSeq(rotate_left(sections, 1), 1, Len(sections) - 1)

rebuild_sections(sections, rebuilt) ==
    push_front(
        push_front(
            push_front(after_pop(sections),
                       [magic |-> <<0, 0, 0, 0>>, size |-> 0,
                        body |-> [kind |-> "DATA", data |-> rebuilt.data]]),
            [magic |-> <<0, 0, 0, 0>>, size |-> 0,
             body |-> [kind |-> "DIDX", descriptors |-> rebuilt.descriptors]]),
        popped(sections))

(* The tree handle_dir hands to prepare_soundbank. *)
handle_dir_sections(sections, files) ==
    IF SelectSeq(files, is_wem) = <<>> THEN sections
    ELSE rebuild_sections(sections,
             rebuild_loop(sort_wems(SelectSeq(files, is_wem)),
                          sections[find_section(sections, "BKHD")].body.wem_alignment,
                          <<>>, <<>>))

(* handle_dir panics on a .wem name that is no number (unwrap, expect) and
   on a tree without BKHD section (expect).  With wem_alignment 0 and a
   wem to import it panics too: `wem_alignment - 1` overflows, and in a
   build without overflow checks prepare_soundbank then divides by zero. *)
handle_dir_panics(sections, files) ==
    \/ \E i \in 1 .. Len(files) : is_wem(files[i]) /\ wem_id(files[i]) = None
    \/ find_section(sections, "BKHD") = 0
    \/ /\ SelectSeq(files, is_wem) # <<>>
       /\ sections[find_section(sections, "BKHD")].body.wem_alignment = 0
    \/ prepare_soundbank([sections |-> handle_dir_sections(sections, files)]).st # "ok"

handle_dir(sections, files) ==
    IF handle_dir_panics(sections, files) THEN [st |-> "panic"]
    ELSE [st |-> "ok",
          sections |-> handle_dir_sections(sections, files),
          output |-> Soundbank_write(
              prepare_soundbank([sections |-> handle_dir_sections(sections, files)]).val)]

json_name == <<115, 111, 117, 110, 100, 98, 97, 110, 107, 46, 106, 115, 111, 110>>

soundbank_json == [name |-> json_name, bytes |-> <<123, 125>>]

wem(digits, contents) == [name |-> digits \o wem_suffix, bytes |-> contents]

(* Directory listings: no wem; one wem; wems whose numeric order is not the
   order of their names, listed both ways; three wems of 3, 16 and 1 bytes;
   an empty wem; 01.wem beside 1.wem; a wem whose name is no number. *)
Listings ==
    {<<soundbank_json>>,
     <<soundbank_json, wem(<<49>>, <<1, 2, 3>>)>>,
     <<wem(<<49, 48>>, <<5, 5, 5, 5, 5>>), soundbank_json, wem(<<57>>, <<9, 9, 9>>)>>,
     <<wem(<<57>>, <<9, 9, 9>>), wem(<<49, 48>>, <<5, 5, 5, 5, 5>>), soundbank_json>>,
     <<wem(<<50>>, <<2, 2, 2>>), wem(<<49>>, [i \in 1 .. 16 |-> 1]), soundbank_json,
       wem(<<51>>, <<3>>)>>,
     <<soundbank_json, wem(<<49>>, <<>>), wem(<<50>>, <<7>>)>>,
     <<soundbank_json, wem(<<48, 49>>, <<4, 4>>), wem(<<49>>, <<7>>)>>,
     <<soundbank_json, wem(<<120>>, <<1>>)>>}

DirAlignments == {0, 1, 12, 16}

(* Trees of soundbank.json as handle_soundbank leaves them (no DIDX, no
   DATA), with the sections in several orders. *)
DirTrees ==
    {<<wire_section(bkhd(a, <<>>))>> : a \in DirAlignments}
    \cup {<<wire_section(bkhd(a, <<>>)), wire_section(hirc(<<wire_object(10, event(<<20>>))>>))>> :
             a \in DirAlignments}
    \cup {<<wire_section(hirc(<<wire_object(10, event(<<20>>))>>)), wire_section(bkhd(16, <<>>))>>,
          <<wire_section(bkhd(16, <<7, 7>>)), wire_section([kind |-> "FXPR", data |-> <<9>>]),
            wire_section(hirc(<<>>))>>,
          <<wire_section(hirc(<<>>))>>}

handle_dir_call ==
    \E t \in DirTrees, files \in Listings :
        returned("handle_dir", [sections |-> t, files |-> files], handle_dir(t, files),
                 handle_dir(t, files).st = "panic")

(* ------------------------------------------------------------------ *)
(* JSON field codecs (serialization.rs).  A String is the sequence of  *)
(* its UTF-8 bytes; the serializer is handed the String.               *)
(* ------------------------------------------------------------------ *)
safe_get(b, i) == IF i <= Len(b) THEN b[i] ELSE 0

is_continuation(x) == x \in 128 .. 191

utf8_char_width(x) ==
    IF x < 128 THEN 1
    ELSE IF x \in 194 .. 223 THEN 2
    ELSE IF x \in 224 .. 239 THEN 3
    ELSE IF x \in 240 .. 244 THEN 4
    ELSE 0

(* The second byte a lead byte of width 3 or 4 admits. *)
second_byte_ok(first, second) ==
    \/ first = 224 /\ second \in 160 .. 191
    \/ first \in 225 .. 236 /\ second \in 128 .. 191
    \/ first = 237 /\ second \in 128 .. 159
    \/ first \in 238 .. 239 /\ second \in 128 .. 191
    \/ first = 240 /\ second \in 144 .. 191
    \/ first \in 241 .. 243 /\ second \in 128 .. 191
    \/ first = 244 /\ second \in 128 .. 143

(* The first chunk of b: a character of len bytes, or an invalid sequence
   of len bytes (the lead byte and the bytes accepted after it). *)
utf8_chunk(b) ==
    CASE utf8_char_width(b[1]) = 1 -> [valid |-> TRUE, len |-> 1]
      [] utf8_char_width(b[1]) = 2 ->
             IF is_continuation(safe_get(b, 2)) THEN [valid |-> TRUE, len |-> 2]
             ELSE [valid |-> FALSE, len |-> 1]
      [] utf8_char_width(b[1]) = 3 ->
             IF ~second_byte_ok(b[1], safe_get(b, 2)) THEN [valid |-> FALSE, len |-> 1]
             ELSE IF ~is_continuation(safe_get(b, 3)) THEN [valid |-> FALSE, len |-> 2]
             ELSE [valid |-> TRUE, len |-> 3]
      [] utf8_char_width(b[1]) = 4 ->
             IF ~second_byte_ok(b[1], safe_get(b, 2)) THEN [valid |-> FALSE, len |-> 1]
             ELSE IF ~is_continuation(safe_get(b, 3)) THEN [valid |-> FALSE, len |-> 2]
             ELSE IF ~is_continuation(safe_get(b, 4)) THEN [valid |-> FALSE, len |-> 3]
             ELSE [valid |-> TRUE, len |-> 4]
      [] OTHER -> [valid |-> FALSE, len |-> 1]

REPLACEMENT_CHARACTER == <<239, 191, 189>>                     \* U+FFFD

(* String::from_utf8_lossy, CStr::to_string_lossy: each invalid sequence
   becomes U+FFFD. *)
RECURSIVE from_utf8_lossy(_)
from_utf8_lossy(b) ==
    IF b = <<>> THEN <<>>
    ELSE (IF utf8_chunk(b).valid THEN SubSeq(b, 1, utf8_chunk(b).len)
          ELSE REPLACEMENT_CHARACTER)
         \o from_utf8_lossy(SubSeq(b, utf8_chunk(b).len + 1, Len(b)))

cstring_serialize(v) == from_utf8_lossy(v)

(* CString::new(..).unwrap(): a string with a NUL byte panics. *)
cstring_deserialize(string) ==
    IF \E i \in 1 .. Len(string) : string[i] = 0 THEN None ELSE Some(string)

bytestring_serialize(v) == from_utf8_lossy(v)

bytestring_deserialize(string) == Some(string)

(* base64, alphabet A-Z a-z 0-9 + /, no padding. *)
base64_symbol(x) ==
    IF x < 26 THEN 65 + x
    ELSE IF x < 52 THEN 97 + (x - 26)
    ELSE IF x < 62 THEN 48 + (x - 52)
    ELSE IF x = 62 THEN 43 ELSE 47

base64_value(c) ==
    IF c \in 65 .. 90 THEN c - 65
    ELSE IF c \in 97 .. 122 THEN (c - 97) + 26
    ELSE IF c \in 48 .. 57 THEN (c - 48) + 52
    ELSE IF c = 43 THEN 62
    ELSE IF c = 47 THEN 63 ELSE 64

base64_encode_tail(v) ==
    IF Len(v) = 1 THEN <<base64_symbol(v[1] \div 4), base64_symbol((v[1] % 4) * 16)>>
    ELSE <<base64_symbol(v[1] \div 4),
           base64_symbol(((v[1] % 4) * 16) + (v[2] \div 16)),
           base64_symbol((v[2] % 16) * 4)>>

RECURSIVE base64_encode(_)
base64_encode(v) ==
    IF v = <<>> THEN <<>>
    ELSE IF Len(v) < 3 THEN base64_encode_tail(v)
    ELSE <<base64_symbol(v[1] \div 4),
           base64_symbol(((v[1] % 4) * 16) + (v[2] \div 16)),
           base64_symbol(((v[2] % 16) * 4) + (v[3] \div 64)),
           base64_symbol(v[3] % 64)>>
         \o base64_encode(SubSeq(v, 4, Len(v)))

(* The bytes of symbols that are all in the alphabet; a tail of 2 or 3
   symbols must have its unused low bits zero. *)
RECURSIVE base64_decode_symbols(_)
base64_decode_symbols(c) ==
    IF c = <<>> THEN Some(<<>>)
    ELSE IF Len(c) = 1 THEN None
    ELSE IF Len(c) = 2
    THEN (IF base64_value(c[2]) % 16 # 0 THEN None
          ELSE Some(<<(base64_value(c[1]) * 4) + (base64_value(c[2]) \div 16)>>))
    ELSE IF Len(c) = 3
    THEN (IF base64_value(c[3]) % 4 # 0 THEN None
          ELSE Some(<<(base64_value(c[1]) * 4) + (base64_value(c[2]) \div 16),
                      ((base64_value(c[2]) % 16) * 16) + (base64_value(c[3]) \div 4)>>))
    ELSE IF base64_decode_symbols(SubSeq(c, 5, Len(c))) = None THEN None
    ELSE Some(<<(base64_value(c[1]) * 4) + (base64_value(c[2]) \div 16),
                ((base64_value(c[2]) % 16) * 16) + (base64_value(c[3]) \div 4),
                ((base64_value(c[3]) % 4) * 64) + base64_value(c[4])>>
              \o base64_decode_symbols(SubSeq(c, 5, Len(c))).value)

base64_decode(c) ==
    IF \E i \in 1 .. Len(c) : base64_value(c[i]) = 64 THEN None
    ELSE base64_decode_symbols(c)

base64_serialize(v) == base64_encode(v)

(* decode(..).unwrap() *)
base64_deserialize(string) == base64_decode(string)

(* Field values: empty, ASCII, valid UTF-8 of 2 and 3 bytes, bytes that are
   not UTF-8 (a lone 0xFF, a 3-byte character cut short, a continuation
   byte alone), and lengths 1 to 4 with all kinds of base64 tails. *)
FieldValues ==
    {<<>>, <<72, 105>>, <<195, 169>>, <<226, 130, 172>>, <<255>>, <<65, 226, 130>>,
     <<128, 66>>, <<1, 2, 3>>, <<1, 2, 3, 4>>, <<251, 255, 190>>, <<250, 0>>, <<0, 16, 131, 16>>}

(* A field serialized and deserialized again. *)
through(name, v, string, back) ==
    returned(name, v, [string |-> string, value |-> back], back = None)

cstring_call ==
    \E v \in {x \in FieldValues : \A i \in 1 .. Len(x) : x[i] # 0} :
        through("serialization::cstring", v, cstring_serialize(v),
                cstring_deserialize(cstring_serialize(v)))

bytestring_call ==
    \E v \in FieldValues :
        through("serialization::bytestring", v, bytestring_serialize(v),
                bytestring_deserialize(bytestring_serialize(v)))

base64_call ==
    \E v \in FieldValues :
        through("serialization::base64", v, base64_serialize(v),
                base64_deserialize(base64_serialize(v)))

(* ------------------------------------------------------------------ *)
(* Bank to directory (bnk2json handle_soundbank): the bank is parsed,  *)
(* each descriptor's bytes are written to <id>.wem, DIDX and DATA are  *)
(* dropped from the tree, the ids of the objects of the first HIRC     *)
(* section are replaced by their dictionary names, and the tree is     *)
(* written as soundbank.json.                                          *)
(* ------------------------------------------------------------------ *)
to_halves(h) == [hi |-> h \div 65536, lo |-> h % 65536]

(* format!("{}", id) *)
RECURSIVE to_decimal(_)
to_decimal(n) ==
    IF n < 10 THEN <<48 + n>> ELSE to_decimal(n \div 10) \o <<48 + (n % 10)>>

(* The descriptors' bytes as written to the output directory, in the order
   of the descriptors: &data.data[start..end]. *)
carve(descriptors, wem_data) ==
    [i \in 1 .. Len(descriptors) |->
        [name |-> to_decimal(from_le_bytes(SubSeq(descriptors[i], 1, 4))) \o wem_suffix,
         bytes |-> SubSeq(wem_data,
                          from_le_bytes(SubSeq(descriptors[i], 5, 8)) + 1,
                          from_le_bytes(SubSeq(descriptors[i], 5, 8))
                              + from_le_bytes(SubSeq(descriptors[i], 9, 12)))]]

carve_panics(descriptors, wem_data) ==
    \E i \in 1 .. Len(descriptors) :
        from_le_bytes(SubSeq(descriptors[i], 5, 8)) + from_le_bytes(SubSeq(descriptors[i], 9, 12))
            > Len(wem_data)

carved(sections) ==
    IF find_section(sections, "DIDX") # 0 /\ find_section(sections, "DATA") # 0
    THEN carve(sections[find_section(sections, "DIDX")].body.descriptors,
               sections[find_section(sections, "DATA")].body.data)
    ELSE <<>>

is_json_section(section) == section.body.kind \notin {"DIDX", "DATA"}

(* sections.retain(..) *)
retain(sections) == SelectSeq(sections, is_json_section)

(* Variant of the substitution that takes the name of any dictionary entry
   for an id the dictionary does not hold; C25 must tell it from the
   original. *)
dictionary_name_any(id, dictionary) ==
    IF DOMAIN dictionary # {}
    THEN [tag |-> "String", string |-> dictionary[CHOOSE k \in DOMAIN dictionary : TRUE]]
    ELSE id

(* match dictionary.get(&object.id.as_hash()) *)
dictionary_name(id, dictionary) ==
    IF to_halves(ObjectId_as_hash(id)) \in DOMAIN dictionary
    THEN [tag |-> "String", string |-> dictionary[to_halves(ObjectId_as_hash(id))]]
    ELSE id

substitute(sections, dictionary) ==
    IF find_section(sections, "HIRC") = 0 THEN sections
    ELSE [sections EXCEPT ![find_section(sections, "HIRC")].body.objects =
             [j \in 1 .. Len(@) |-> [@[j] EXCEPT !.id = dictionary_name(@, dictionary)]]]

handle_soundbank_panics(file) ==
    \/ parse_soundbank(file).st # "ok"                                  \* expect
    \/ /\ find_section(parse_soundbank(file).val.sections, "DIDX") # 0
       /\ find_section(parse_soundbank(file).val.sections, "DATA") # 0
       /\ carve_panics(parse_soundbank(file).val.sections[
                           find_section(parse_soundbank(file).val.sections, "DIDX")].body.descriptors,
                       parse_soundbank(file).val.sections[
                           find_section(parse_soundbank(file).val.sections, "DATA")].body.data)

handle_soundbank(file, dictionary) ==
    IF handle_soundbank_panics(file) THEN [st |-> "panic"]
    ELSE [st |-> "ok",
          files |-> carved(parse_soundbank(file).val.sections),
          parsed |-> retain(parse_soundbank(file).val.sections),
          sections |-> substitute(retain(parse_soundbank(file).val.sections), dictionary)]

(* Bank files given to handle_soundbank: objects whose ids are the hashes
   of "play" (0x4AE0223F) and of "play_c407001000", and ids no dictionary
   holds; descriptors inside and outside DATA. *)
named_objects ==
    <<wire_object(1256202815, event(<<20>>)),
      wire_object(10, event(<<21>>)),
      wire_object(1834890111, lfo_modulator(<<1, 2, 3>>))>>

wem_descriptor(id, offset, size) == u32_write(id) \o u32_write(offset) \o u32_write(size)

BankFiles ==
    {Section_write_all(<<wire_section(bkhd(16, <<>>)), wire_section(hirc(named_objects))>>),
     Section_write_all(<<wire_section(bkhd(16, Zeros(12))),
                         wire_section([kind |-> "DIDX",
                                       descriptors |-> <<wem_descriptor(9, 0, 3),
                                                         wem_descriptor(10, 16, 2)>>]),
                         wire_section(data(<<9, 9, 9>> \o Zeros(13) \o <<5, 5>>)),
                         wire_section(hirc(named_objects))>>),
     Section_write_all(<<wire_section(bkhd(16, <<>>)),
                         wire_section([kind |-> "DIDX",
                                       descriptors |-> <<wem_descriptor(9, 2, 3)>>]),
                         wire_section(data(<<9, 9, 9>>))>>),
     Section_write_all(<<wire_section(bkhd(16, <<>>)), wire_section(hirc(objects))>>),
     Section_write_all(<<wire_section(bkhd(16, <<>>))>>) \o <<72, 73>>}

handle_soundbank_call ==
    \E file \in BankFiles, d \in Dictionaries :
        returned("handle_soundbank", [file |-> file, dictionary |-> d],
                 handle_soundbank(file, parse_dictionary(d)),
                 handle_soundbank(file, parse_dictionary(d)).st = "panic")

(* Object ids: hashes, and names in several cases. *)
ObjectIds ==
    {[tag |-> "Hash", hash |-> h] : h \in {0, 10, 1256202815, 1834890111, 2147483647}}
    \cup {[tag |-> "String", string |-> s] :
             s \in {<<80, 108, 97, 121>>, <<112, 108, 97, 121>>, Play_c407001000,
                    PLAY_c407001000}}

(* The ids whose hash is below 2^31, the integers of the model. *)
below_2_31(id) == id.tag = "String" => create_hash(id.string).hi < 32768

ObjectId_call ==
    \E id \in ObjectIds :
        /\ below_2_31(id)
        /\ returned("ObjectId::write", id,
                    [bytes |-> ObjectId_write(id),
                     read |-> ObjectId_read(ObjectId_write(id), Ok(1, <<>>), "id")],
                    FALSE)

(* ------------------------------------------------------------------ *)
(* Decision-tree blocks given to parse_node: 12-byte records           *)
(* key, middle field, weight, probability.                             *)
(* ------------------------------------------------------------------ *)
tree_record(key, middle) == u32_write(key) \o u32_write(middle) \o <<50, 0, 100, 0>>

(* The middle field of an internal record. *)
links(first_child_index, child_count) == child_count * 65536 + first_child_index

(* The blocks: a root over two leaves, one of them with an audio node id
   between the record count and the byte count; a root whose only child is
   itself; a child that points back at the root; a child index just past
   the block, and one further; a block that is not a multiple of 12. *)
TreeBlocks ==
    {tree_record(0, links(1, 2)) \o tree_record(5, 70000) \o tree_record(6, 5),
     tree_record(0, links(0, 1)),
     tree_record(0, links(1, 1)) \o tree_record(5, links(0, 2)),
     tree_record(0, links(2, 1)) \o tree_record(5, 70000),
     tree_record(0, links(3, 1)) \o tree_record(5, 70000),
     tree_record(0, links(1, 1)) \o tree_record(5, 9) \o <<1, 2, 3, 4>>}

MaxTreeDepth == 3

parse_node_call ==
    \E slice \in TreeBlocks, tree_depth \in 0 .. MaxTreeDepth :
        \E current_depth \in 0 .. tree_depth, offset \in 0 .. (Len(slice) \div 12 - 1) :
            returned("parse_node",
                     [slice |-> slice, tree_size |-> Len(slice), tree_depth |-> tree_depth,
                      current_depth |-> current_depth, offset |-> offset],
                     parse_node(slice, Len(slice), tree_depth, current_depth, offset),
                     parse_node(slice, Len(slice), tree_depth, current_depth, offset).st = "panic")

Next ==
    \/ parse_node_call
    \/ handle_soundbank_call \/ ObjectId_call
    \/ cstring_call \/ bytestring_call \/ base64_call
    \/ handle_dir_call
    \/ parse_dictionary_call \/ dictionary_parse_dictionary_call
    \/ as_hash_call \/ fnv_hash_call
    \/ get_output_nodes_call
    \/ PropBundle_write_list_call \/ PropBundle_read_list_call
    \/ Parse \/ LoadJson
    \/ PushDescriptor \/ SetPadding \/ RemoveSection \/ SwapSections
    \/ PushTreeChild \/ PopTreeChild \/ PushArgument \/ PushAction
    \/ SetParams \/ PushState
    \/ Prepare \/ Encode

Spec == Init /\ [][Next]_vars


(* ------------------------------------------------------------------ *)
(* Properties                                                          *)
(* ------------------------------------------------------------------ *)
has_section(t, kind) == find_section(t.sections, kind) # 0

section_body(t, kind) == t.sections[find_section(t.sections, kind)].body

(* All HIRC objects of a tree, section by section. *)
RECURSIVE objects_of(_)
objects_of(sections) ==
    IF sections = <<>> THEN <<>>
    ELSE (IF Head(sections).body.kind = "HIRC" THEN Head(sections).body.objects ELSE <<>>)
         \o objects_of(Tail(sections))

(* The order of a tree: the kinds of its sections and, for a HIRC section,
   the ids and kinds of its objects. *)
order_of(t) ==
    [i \in 1 .. Len(t.sections) |->
        IF t.sections[i].body.kind = "HIRC"
        THEN <<"HIRC", [j \in 1 .. Len(t.sections[i].body.objects) |->
                           <<t.sections[i].body.objects[j].id.hash,
                             t.sections[i].body.objects[j].body.kind>>]>>
        ELSE <<t.sections[i].body.kind>>]

(* A file read as a chain of sections by its headers alone: each header's
   size field gives the place of the next header.  A chain that runs past
   the end of the file ends with an entry of kind "broken". *)
RECURSIVE walk_sections(_, _)
walk_sections(file, p) ==
    IF p > Len(file) THEN <<>>
    ELSE IF p + 7 > Len(file)
            \/ p + 7 + from_le_bytes(SubSeq(file, p + 4, p + 7)) > Len(file)
    THEN <<[kind |-> "broken", magic |-> <<>>, offset |-> 0, body |-> <<>>]>>
    ELSE <<[kind |-> "section", magic |-> SubSeq(file, p, p + 3), offset |-> p + 7,
            body |-> SubSeq(file, p + 8, p + 7 + from_le_bytes(SubSeq(file, p + 4, p + 7)))]>>
         \o walk_sections(file, p + 8 + from_le_bytes(SubSeq(file, p + 4, p + 7)))

(* The body of a HIRC section read as a chain of objects by their headers
   alone: type (1 byte), size (4 bytes), then size bytes of id and body. *)
RECURSIVE walk_objects(_, _)
walk_objects(body, p) ==
    IF p > Len(body) THEN <<>>
    ELSE IF p + 4 > Len(body)
            \/ p + 4 + from_le_bytes(SubSeq(body, p + 1, p + 4)) > Len(body)
            \/ from_le_bytes(SubSeq(body, p + 1, p + 4)) < 4
    THEN <<[kind |-> "broken", body_type |-> 0, id |-> 0, body |-> <<>>]>>
    ELSE <<[kind |-> "object", body_type |-> body[p],
            id |-> from_le_bytes(SubSeq(body, p + 5, p + 8)),
            body |-> SubSeq(body, p + 9, p + 4 + from_le_bytes(SubSeq(body, p + 1, p + 4)))]>>
         \o walk_objects(body, p + 5 + from_le_bytes(SubSeq(body, p + 1, p + 4)))

(* C1: Round-trip.  For every byte sequence that parse_soundbank accepts,
   parsing it, preparing the tree (unedited) and encoding it yields exactly
   the input bytes. *)
C1_RoundTrip ==
    (pc = "encoded" /\ origin = "file" /\ edits = 0) => output = input

(* C2: Idempotent prepare.  When prepare has succeeded on a tree, a second
   prepare leaves every field of the tree as the first run left it. *)
C2_IdempotentPrepare ==
    (pc = "prepared" /\ nprep >= 2) => bank = prev

C2_Witness ==
    /\ pc = "prepared" /\ nprep = 2 /\ edits > 0
    /\ has_section(bank, "HIRC")
    /\ Len(section_body(bank, "HIRC").objects) > 1
    /\ bank = prev

(* The offset in the written file of the first byte of the DATA body. *)
data_offset(file) ==
    walk_sections(file, 1)[CHOOSE i \in 1 .. Len(walk_sections(file, 1)) :
                               /\ walk_sections(file, 1)[i].magic = magic_DATA
                               /\ \A j \in 1 .. (i - 1) :
                                     walk_sections(file, 1)[j].magic # magic_DATA].offset

(* C3: DIDX/DATA alignment.  For every bank with both a DIDX and a DATA
   section, in any section order and with any descriptor count, the file
   written after prepare has the first byte of the DATA body at an offset
   that is a multiple of BKHD.wem_alignment. *)
C3_DataAligned ==
    (/\ pc = "encoded"
     /\ has_section(bank, "BKHD") /\ has_section(bank, "DIDX") /\ has_section(bank, "DATA"))
    => data_offset(output) % section_body(bank, "BKHD").wem_alignment = 0

(* C4: Padding formula.  After prepare on a bank with BKHD and DIDX,
   BKHD.padding is all zero bytes and its length is
   (alignment - offset % alignment) % alignment with
   offset = 3*8 + 0x14 + descriptor_count*0xC, whatever padding the tree held
   before. *)
C4_PaddingFormula ==
    (pc = "prepared" /\ has_section(bank, "BKHD") /\ has_section(bank, "DIDX"))
    => /\ \A i \in 1 .. Len(section_body(bank, "BKHD").padding) :
             section_body(bank, "BKHD").padding[i] = 0
       /\ Len(section_body(bank, "BKHD").padding) =
             (section_body(bank, "BKHD").wem_alignment
                - ((3 * 8 + 20 + Len(section_body(bank, "DIDX").descriptors) * 12)
                       % section_body(bank, "BKHD").wem_alignment))
             % section_body(bank, "BKHD").wem_alignment

C4_Witness ==
    /\ pc = "prepared" /\ nprep = 1
    /\ has_section(bank, "BKHD") /\ has_section(bank, "DIDX")
    /\ section_body(prev, "BKHD").padding = <<7, 7>>
    /\ section_body(bank, "BKHD").wem_alignment = 16
    /\ Len(section_body(bank, "DIDX").descriptors) = 2
    /\ section_body(bank, "BKHD").padding = Zeros(12)

(* The tree of the aligned-DATA scenario, prepared: BKHD with
   wem_alignment 16, a DIDX with one descriptor, a DATA section of 3 bytes. *)
aligned_data_scenario ==
    /\ pc = "prepared"
    /\ has_section(bank, "BKHD") /\ has_section(bank, "DIDX") /\ has_section(bank, "DATA")
    /\ section_body(bank, "BKHD").wem_alignment = 16
    /\ Len(section_body(bank, "DIDX").descriptors) = 1
    /\ Len(section_body(bank, "DATA").data) = 3

(* C5 as stated: in the aligned-DATA scenario BKHD.padding has length 12
   after prepare. *)
C5_ScenarioPaddingIs12 ==
    aligned_data_scenario => Len(section_body(bank, "BKHD").padding) = 12

(* C5 amended: in the aligned-DATA scenario BKHD.padding has length
   (16 - ((3*8 + 0x14 + 1*0xC) % 16)) % 16 = 8 after prepare. *)
C5_ScenarioPaddingIs8 ==
    aligned_data_scenario
    => /\ Len(section_body(bank, "BKHD").padding) = (16 - ((3 * 8 + 20 + 1 * 12) % 16)) % 16
       /\ Len(section_body(bank, "BKHD").padding) = 8

C5_Witness ==
    /\ aligned_data_scenario
    /\ Len(bank.sections) = 3
    /\ section_body(prev, "BKHD").padding = <<>>
    /\ section_body(bank, "BKHD").padding = Zeros(8)

(* C6: No padding without DIDX+DATA.  When a bank lacks a DIDX section or
   lacks a DATA section, prepare computes no padding: a BKHD.padding that
   was empty before prepare is empty after it. *)
C6_NoPaddingWithoutDidxAndData ==
    (/\ pc = "prepared" /\ has_section(bank, "BKHD")
     /\ (~has_section(bank, "DIDX") \/ ~has_section(bank, "DATA"))
     /\ section_body(prev, "BKHD").padding = <<>>)
    => section_body(bank, "BKHD").padding = <<>>

(* C7: Size fields.  After a successful prepare every Section.size is the
   encoded length of the section's body and every HIRCObject.size is the
   encoded length of the object's body plus 4; and in the file written, the
   size fields lead from each header to the next: read by its headers
   alone, the file is the sections of the tree, each with its body, and
   each HIRC body is the objects of the section, each with its id and body. *)
C7_SizeFields ==
    /\ (pc \in {"prepared", "encoded"})
       => /\ \A i \in 1 .. Len(bank.sections) :
                bank.sections[i].size = Len(SectionBody_write(bank.sections[i].body))
          /\ \A j \in 1 .. Len(objects_of(bank.sections)) :
                objects_of(bank.sections)[j].size =
                    Len(HIRCObjectBody_write(objects_of(bank.sections)[j].body)) + 4
    /\ (pc = "encoded")
       => /\ Len(walk_sections(output, 1)) = Len(bank.sections)
          /\ \A i \in 1 .. Len(bank.sections) :
                /\ walk_sections(output, 1)[i].kind = "section"
                /\ walk_sections(output, 1)[i].body = SectionBody_write(bank.sections[i].body)
                /\ bank.sections[i].body.kind = "HIRC"
                   => /\ Len(walk_objects(walk_sections(output, 1)[i].body, 5))
                            = Len(bank.sections[i].body.objects)
                      /\ \A j \in 1 .. Len(bank.sections[i].body.objects) :
                            /\ walk_objects(walk_sections(output, 1)[i].body, 5)[j].kind
                                  = "object"
                            /\ walk_objects(walk_sections(output, 1)[i].body, 5)[j].body
                                  = HIRCObjectBody_write(bank.sections[i].body.objects[j].body)

C7_Witness ==
    /\ pc = "encoded" /\ edits > 0
    /\ has_section(bank, "HIRC")
    /\ Len(section_body(bank, "HIRC").objects) > 1
    /\ \E i \in 1 .. Len(prev.sections) :
          prev.sections[i].size # Len(SectionBody_write(prev.sections[i].body))
    /\ Len(walk_sections(output, 1)) = Len(bank.sections)

(* The count fields of the parts of a tree against the sequences they
   prefix. *)
RECURSIVE AkDecisionTreeNode_counts(_)
AkDecisionTreeNode_counts(node) ==
    /\ node.child_count = Len(node.children)
    /\ \A i \in 1 .. Len(node.children) : AkDecisionTreeNode_counts(node.children[i])

NodeBaseParams_counts(v) ==
    /\ v.node_initial_fx_parameters.fx_chunk_count = Len(v.node_initial_fx_parameters.fx_chunks)
    /\ v.node_initial_params.prop_ranged_modifiers.count
          = Len(v.node_initial_params.prop_ranged_modifiers.entries)
    /\ v.positioning_params.vertex_count = Len(v.positioning_params.vertices)
    /\ v.positioning_params.path_list_item_count
          = Len(v.positioning_params.path_list_item_offsets)
    /\ v.state_chunk.state_property_count = Len(v.state_chunk.state_property_info)
    /\ v.state_chunk.state_group_count = Len(v.state_chunk.state_group_chunks)
    /\ \A i \in 1 .. Len(v.state_chunk.state_group_chunks) :
          v.state_chunk.state_group_chunks[i].state_count
              = Len(v.state_chunk.state_group_chunks[i].states)
    /\ v.initial_rtpc.count = Len(v.initial_rtpc.rtpcs)
    /\ \A i \in 1 .. Len(v.initial_rtpc.rtpcs) :
          v.initial_rtpc.rtpcs[i].graph_point_count = Len(v.initial_rtpc.rtpcs[i].graph_points)

MusicTransNodeParams_counts(v) ==
    /\ NodeBaseParams_counts(v.music_node_params.node_base_params)
    /\ v.music_node_params.children.count = Len(v.music_node_params.children.items)
    /\ v.music_node_params.stinger_count = Len(v.music_node_params.stingers)
    /\ v.transition_rule_count = Len(v.transition_rules)
    /\ \A i \in 1 .. Len(v.transition_rules) :
          /\ v.transition_rules[i].source_transition_rule_count
                = Len(v.transition_rules[i].source_ids)
          /\ v.transition_rules[i].destination_transition_rule_count
                = Len(v.transition_rules[i].destination_ids)

HIRCObjectBody_counts(body) ==
    CASE body.kind = "Sound" ->
             /\ NodeBaseParams_counts(body.node_base_params)
             /\ ~has_params(body.bank_source_data.plugin)       \* params_size is on the wire
                => body.bank_source_data.params_size = Len(body.bank_source_data.params)
      [] body.kind = "Event" -> body.action_count = Len(body.actions)
      [] body.kind = "MusicSwitchContainer" ->
             /\ MusicTransNodeParams_counts(body.music_trans_node_params)
             /\ body.tree_depth = Len(body.arguments)
             /\ AkDecisionTreeNode_counts(body.tree)
      [] body.kind = "DialogueEvent" ->
             /\ body.tree_depth = Len(body.arguments)
             /\ body.ranged_modifiers.count = Len(body.ranged_modifiers.entries)
             /\ AkDecisionTreeNode_counts(body.tree)
      [] OTHER -> TRUE

(* C8: Count fields.  After a successful prepare every count field of the
   tree, at every level of every section and object, tree_depth and the
   decision trees' child_count among them, equals the length of the sequence
   it prefixes. *)
C8_CountFields ==
    (pc = "prepared")
    => /\ \A i \in 1 .. Len(bank.sections) :
             bank.sections[i].body.kind = "HIRC"
             => bank.sections[i].body.object_count = Len(bank.sections[i].body.objects)
       /\ \A j \in 1 .. Len(objects_of(bank.sections)) :
             HIRCObjectBody_counts(objects_of(bank.sections)[j].body)

(* C9: tree_size recomputation.  After prepare, for every MusicSwitchContainer
   and every DialogueEvent, tree_size is the length of the encoded tree, 12
   bytes for each node of the in-memory tree, also when nodes were added or
   removed since decode. *)
C9_TreeSize ==
    (pc = "prepared")
    => \A j \in 1 .. Len(objects_of(bank.sections)) :
          objects_of(bank.sections)[j].body.kind \in {"MusicSwitchContainer", "DialogueEvent"}
          => /\ objects_of(bank.sections)[j].body.tree_size
                   = Len(AkDecisionTreeNode_write(objects_of(bank.sections)[j].body.tree))
             /\ objects_of(bank.sections)[j].body.tree_size
                   = 12 * TreeNodeCount(objects_of(bank.sections)[j].body.tree)

(* C10: Order preservation.  The sections decode yields are in input order:
   the file written from a tree decodes to a tree of the same order.
   Prepare keeps the order, the number and the identity of sections and of
   the objects of a HIRC section; and the file written has the sections, and
   within a HIRC section the objects, in the order of the tree. *)
C10_OrderPreserved ==
    /\ (pc = "tree" /\ origin = "file" /\ edits = 0)
       => \A t \in Banks :
             input = Soundbank_write([sections |-> t])
             => order_of(bank) = order_of([sections |-> t])
    /\ (pc = "prepared") => order_of(bank) = order_of(prev)
    /\ (pc = "encoded")
       => /\ Len(walk_sections(output, 1)) = Len(bank.sections)
          /\ \A i \in 1 .. Len(bank.sections) :
                /\ walk_sections(output, 1)[i].magic
                      = SectionBody_deku_id(bank.sections[i].body)
                /\ bank.sections[i].body.kind = "HIRC"
                   => [j \in 1 .. Len(walk_objects(walk_sections(output, 1)[i].body, 5)) |->
                          walk_objects(walk_sections(output, 1)[i].body, 5)[j].id]
                      = [j \in 1 .. Len(bank.sections[i].body.objects) |->
                            bank.sections[i].body.objects[j].id.hash]

C10_Witness ==
    /\ pc = "encoded" /\ origin = "file"
    /\ Len(bank.sections) > 1
    /\ has_section(bank, "HIRC")
    /\ Len(section_body(bank, "HIRC").objects) > 1
    /\ order_of(bank) = order_of(prev)

(* The nodes of a tree in breadth-first order, the root first. *)
RECURSIVE breadth_first(_)
breadth_first(pending) ==
    IF pending = <<>> THEN <<>>
    ELSE <<Head(pending)>> \o breadth_first(Tail(pending) \o Head(pending).children)

(* The number of children of the first i nodes of a sequence of nodes. *)
RECURSIVE children_before(_, _)
children_before(nodes, i) ==
    IF i = 0 THEN 0 ELSE Len(nodes[i].children) + children_before(nodes, i - 1)

(* Fields of the 12-byte record with index i (from 0) of a tree block. *)
record_key(tree_block, i) == from_le_bytes(SubSeq(tree_block, 12 * i + 1, 12 * i + 4))

record_middle(tree_block, i) == from_le_bytes(SubSeq(tree_block, 12 * i + 5, 12 * i + 8))

record_first_child_index(tree_block, i) ==
    from_le_bytes(SubSeq(tree_block, 12 * i + 5, 12 * i + 6))

record_child_count(tree_block, i) ==
    from_le_bytes(SubSeq(tree_block, 12 * i + 7, 12 * i + 8))

record_weight(tree_block, i) == from_le_bytes(SubSeq(tree_block, 12 * i + 9, 12 * i + 10))

record_probability(tree_block, i) ==
    from_le_bytes(SubSeq(tree_block, 12 * i + 11, 12 * i + 12))

(* The layout of a tree block against the nodes it was written from, given
   in breadth-first order: one record per node; a node with children
   carries their number and the record index of the first of them, and they
   follow each other from that index; a node without children carries its
   node_id. *)
tree_layout(nodes, tree_block) ==
    /\ Len(tree_block) = 12 * Len(nodes)
    /\ \A i \in 1 .. Len(nodes) :
          /\ record_key(tree_block, i - 1) = nodes[i].key
          /\ record_weight(tree_block, i - 1) = nodes[i].weight
          /\ record_probability(tree_block, i - 1) = nodes[i].probability
          /\ nodes[i].children # <<>>
             => /\ record_child_count(tree_block, i - 1) = Len(nodes[i].children)
                /\ record_first_child_index(tree_block, i - 1)
                      = 1 + children_before(nodes, i - 1)
                /\ \A k \in 1 .. Len(nodes[i].children) :
                      nodes[record_first_child_index(tree_block, i - 1) + k]
                          = nodes[i].children[k]
          /\ nodes[i].children = <<>>
             => record_middle(tree_block, i - 1) = nodes[i].node_id

(* The trees held by the objects of the bank. *)
tree_objects ==
    {j \in 1 .. Len(objects_of(bank.sections)) :
        objects_of(bank.sections)[j].body.kind \in {"MusicSwitchContainer", "DialogueEvent"}}

tree_of(j) == objects_of(bank.sections)[j].body.tree

(* A root with two leaf children A (key 1, node_id 100) and B (key 2,
   node_id 200), weight and probability 0 throughout. *)
two_leaves_tree ==
    [key |-> 0, node_id |-> 0, first_child_index |-> 0, child_count |-> 2,
     weight |-> 0, probability |-> 0,
     children |-> <<[leaf(1, 100) EXCEPT !.weight = 0, !.probability = 0],
                     [leaf(2, 200) EXCEPT !.weight = 0, !.probability = 0]>>]

(* C11 as stated: for any in-memory tree, write emits one 12-byte record per
   node in breadth-first order; every node whose children sequence is
   non-empty carries its number of children and the record index of its
   first child, and every node without children carries its node_id. *)
C11_EncodeLayoutOfAnyTree ==
    \A j \in tree_objects :
        tree_layout(breadth_first(<<tree_of(j)>>), AkDecisionTreeNode_write(tree_of(j)))

(* C11 amended: the layout holds for every in-memory tree in which each
   node's child_count field equals the number of its children, as prepare
   leaves it; a root with two leaf children is written as 36 bytes with
   first_child_index 1 and child_count 2. *)
C11_EncodeLayout ==
    /\ \A j \in tree_objects :
          AkDecisionTreeNode_counts(tree_of(j))
          => tree_layout(breadth_first(<<tree_of(j)>>), AkDecisionTreeNode_write(tree_of(j)))
    /\ pc = "encoded"
       => \A j \in tree_objects :
             tree_layout(breadth_first(<<tree_of(j)>>), AkDecisionTreeNode_write(tree_of(j)))
    /\ Len(AkDecisionTreeNode_write(two_leaves_tree)) = 36
    /\ record_first_child_index(AkDecisionTreeNode_write(two_leaves_tree), 0) = 1
    /\ record_child_count(AkDecisionTreeNode_write(two_leaves_tree), 0) = 2

C11_Witness ==
    /\ pc = "encoded" /\ edits > 0
    /\ \E j \in tree_objects :
          /\ Len(breadth_first(<<tree_of(j)>>)) = 5
          /\ Len(tree_of(j).children[1].children) = 1
          /\ AkDecisionTreeNode_counts(tree_of(j))
          /\ prev.sections[hirc_index].body.objects[j].body.tree.child_count
                # Len(prev.sections[hirc_index].body.objects[j].body.tree.children)

(* The 32 bits a decoded node carries between key and weight: its node_id
   when it was taken as a leaf, its two halves when it was taken as an
   internal node. *)
node_target(node) == node.node_id + node.first_child_index + 65536 * node.child_count

(* Structural equality of trees: same shape, same key, weight and
   probability on every node, same target on every node without children. *)
RECURSIVE tree_equal(_, _)
tree_equal(a, b) ==
    /\ a.key = b.key /\ a.weight = b.weight /\ a.probability = b.probability
    /\ Len(a.children) = Len(b.children)
    /\ a.children = <<>> => node_target(a) = node_target(b)
    /\ \A i \in 1 .. Len(a.children) :
          i <= Len(b.children) => tree_equal(a.children[i], b.children[i])

(* A decoded tree written and decoded again with the depth it was decoded
   with and the size of the block written. *)
redecoded(node, tree_depth) ==
    parse_node(AkDecisionTreeNode_write(node), Len(AkDecisionTreeNode_write(node)),
               tree_depth, 0, 0)

(* C12: Decision-tree fidelity.  For every tree the decoder yields from a
   file, writing it and decoding the block written yields a tree
   structurally equal to it. *)
C12_TreeFidelity ==
    (pc = "tree" /\ origin = "file" /\ edits = 0)
    => \A j \in tree_objects :
          /\ redecoded(tree_of(j), objects_of(bank.sections)[j].body.tree_depth).st = "ok"
          /\ tree_equal(tree_of(j),
                        redecoded(tree_of(j),
                                  objects_of(bank.sections)[j].body.tree_depth).val)

(* C13: Property-bundle layout and determinism.  write_list writes a list of
   n entries as the count byte n, the n tag bytes in list order, then the n
   values as 4 little-endian bytes each in the same order; the empty list
   is the single byte 0, and [Volume = 1.0, AttenuationID = 42] is
   02 00 46 00 00 80 3F 2A 00 00 00.  A block read_list accepts is written
   back as the bytes it was read from, its tags in the order read.  The
   lists are those whose length n is a count byte; longer lists are the
   subject of C27. *)
C13_PropBundleLayout ==
    /\ (called = "PropBundle::write_list" /\ Len(argument) <= 255)
       => /\ Len(result) = 1 + 5 * Len(argument)
          /\ result[1] = Len(argument)
          /\ \A i \in 1 .. Len(argument) :
                /\ result[1 + i] = argument[i].id
                /\ argument[i].value
                      = result[Len(argument) + 4 * i - 2]
                        + 256 * result[Len(argument) + 4 * i - 1]
                        + 65536 * result[Len(argument) + 4 * i]
                        + 16777216 * result[Len(argument) + 4 * i + 1]
          /\ argument = <<>> => result = <<0>>
          /\ argument = <<[id |-> 0, value |-> 1065353216], [id |-> 70, value |-> 42]>>
             => result = <<2, 0, 70, 0, 0, 128, 63, 42, 0, 0, 0>>
    /\ (called = "PropBundle::read_list" /\ pc = "returned" /\ result.st = "ok")
       => /\ PropBundle_write_list(result.val) = SubSeq(argument, 1, result.pos - 1)
          /\ [i \in 1 .. Len(result.val) |-> result.val[i].id]
                = SubSeq(argument, 2, 1 + Len(result.val))

C13_Witness ==
    /\ called = "PropBundle::read_list" /\ pc = "returned" /\ result.st = "ok"
    /\ Len(result.val) = 2
    /\ result.val[1].id > result.val[2].id
    /\ result.pos - 1 < Len(argument)
    /\ PropBundle_write_list(result.val) = <<2, 70, 0, 42, 0, 0, 0, 0, 0, 128, 63>>

(* C14: Property-bundle unknown tag.  When read_list is given a bundle with
   a tag byte outside the tag table 0x00..0x48, it returns a decode error to
   the caller and the process does not abort. *)
C14_UnknownTagIsError ==
    (/\ called = "PropBundle::read_list"
     /\ Len(argument) > 0
     /\ Len(argument) >= 1 + argument[1]
     /\ \E i \in 1 .. argument[1] : argument[1 + i] \notin 0 .. 72)
    => pc = "returned" /\ result.st = "err"

(* C15: Routing consistency.  For an object of a non-bus routable kind
   get_output_nodes returns the list of override_bus_id alone when that id
   is not 0 and of direct_parent_id alone otherwise; for a Bus or an
   AuxiliaryBus it returns the list of initial_values.override_bus_id alone
   when that id is not 0 and the empty list otherwise; for every other kind
   it returns None, which is not the empty list. *)
C15_RoutingConsistency ==
    called = "get_output_nodes"
    => /\ argument.body.kind \in NodeKinds
          => result = Some(<<IF argument.body.node_base_params.override_bus_id # 0
                             THEN argument.body.node_base_params.override_bus_id
                             ELSE argument.body.node_base_params.direct_parent_id>>)
       /\ argument.body.kind \in MusicNodeKinds
          => result = Some(<<IF argument.body.music_node_params.node_base_params.override_bus_id # 0
                             THEN argument.body.music_node_params.node_base_params.override_bus_id
                             ELSE argument.body.music_node_params.node_base_params.direct_parent_id>>)
       /\ argument.body.kind \in MusicTransNodeKinds
          => result = Some(<<IF argument.body.music_trans_node_params.music_node_params
                                   .node_base_params.override_bus_id # 0
                             THEN argument.body.music_trans_node_params.music_node_params
                                   .node_base_params.override_bus_id
                             ELSE argument.body.music_trans_node_params.music_node_params
                                   .node_base_params.direct_parent_id>>)
       /\ argument.body.kind \in BusKinds
          => result = Some(IF argument.body.initial_values.override_bus_id # 0
                           THEN <<argument.body.initial_values.override_bus_id>>
                           ELSE <<>>)
       /\ argument.body.kind \in UnroutedKinds => result = None /\ result # Some(<<>>)
       /\ argument.body.kind
             \in NodeKinds \cup MusicNodeKinds \cup MusicTransNodeKinds \cup BusKinds
                 \cup UnroutedKinds

C15_Witness ==
    /\ called = "get_output_nodes" /\ pc = "returned"
    /\ argument.body.kind = "Bus"
    /\ argument.body.initial_values.override_bus_id = 0
    /\ result = Some(<<>>)

(* 32-bit FNV-1 stated on words of 32 bits, lowest bit first: the product
   with the prime 16777619 = 2^24 + 2^8 + 2^7 + 2^4 + 2 + 1 is a sum of
   shifts, modulo 2^32. *)
RECURSIVE to_bits(_, _)
to_bits(n, width) ==
    IF width = 0 THEN <<>> ELSE <<n % 2>> \o to_bits(n \div 2, width - 1)

word(n) == to_bits(n, 32)

RECURSIVE add_with_carry(_, _, _)
add_with_carry(x, y, carry) ==
    IF x = <<>> THEN <<>>
    ELSE <<(Head(x) + Head(y) + carry) % 2>>
         \o add_with_carry(Tail(x), Tail(y), (Head(x) + Head(y) + carry) \div 2)

word_add(x, y) == add_with_carry(x, y, 0)

word_shl(x, n) == to_bits(0, n) \o SubSeq(x, 1, 32 - n)

RECURSIVE word_xor(_, _)
word_xor(x, y) ==
    IF x = <<>> THEN <<>>
    ELSE <<(Head(x) + Head(y)) % 2>> \o word_xor(Tail(x), Tail(y))

word_times_prime(x) ==
    word_add(word_add(word_add(x, word_shl(x, 1)),
                      word_add(word_shl(x, 4), word_shl(x, 7))),
             word_add(word_shl(x, 8), word_shl(x, 24)))

(* 2166136261 = 2^31 + 18652613 *)
fnv1_offset_basis == [word(18652613) EXCEPT ![32] = 1]

RECURSIVE fnv1_32(_, _)
fnv1_32(octets, h) ==
    IF octets = <<>> \/ Len(h) # 32 THEN h
    ELSE fnv1_32(Tail(octets), word_xor(word_times_prime(h), word(Head(octets))))

lower(c) == IF c \in 65 .. 90 THEN c + 32 ELSE c

fnv1_32_lower(s) == fnv1_32([i \in 1 .. Len(s) |-> lower(s[i])], fnv1_offset_basis)

RECURSIVE from_bits(_)
from_bits(x) == IF x = <<>> THEN 0 ELSE Head(x) + 2 * from_bits(Tail(x))

halves(x) == [hi |-> from_bits(SubSeq(x, 17, 32)), lo |-> from_bits(SubSeq(x, 1, 16))]

same_letters(s, t) ==
    /\ Len(s) = Len(t)
    /\ \A i \in 1 .. Len(s) : lower(s[i]) = lower(t[i])

(* C16: FNV hash.  create_hash of the format crate and of the analysis crate
   are 32-bit FNV-1 over the ASCII-lowercased bytes of the input: from
   2166136261, for each byte multiply by 16777619 modulo 2^32, then XOR the
   byte.  create_hash("Play_c407001000") is 1834890111, and strings that
   differ only in ASCII letter case have the same hash. *)
C16_FnvHash ==
    (called \in {"create_hash", "fnv::create_hash"})
    => /\ result = halves(fnv1_32_lower(argument))
       /\ result = create_hash(argument)
       /\ result = fnv_create_hash(argument)
       /\ argument = Play_c407001000 => result.hi * 65536 + result.lo = 1834890111
       /\ \A t \in Names : same_letters(argument, t) => create_hash(t) = result
       /\ create_hash(PLAY_c407001000) = create_hash(play_c407001000)
       /\ argument = <<>> => result = [hi |-> 33052, lo |-> 40389]            \* 0x811C9DC5
       /\ argument = <<97>> => result = [hi |-> 1292, lo |-> 23934]           \* 0x050C5D7E

C16_Witness ==
    /\ called = "fnv::create_hash" /\ pc = "returned"
    /\ argument = PLAY_c407001000
    /\ result.hi * 65536 + result.lo = 1834890111

(* The lines of a dictionary file that are not empty and do not start with
   '#'. *)
names_of(d) ==
    {lines(d)[i] : i \in {j \in 1 .. Len(lines(d)) :
                             lines(d)[j] # <<>> /\ lines(d)[j][1] # 35}}

(* C17: Dictionary parsing.  parse_dictionary, of bnk2json and of the
   analysis crate, returns a map with exactly one entry create_hash(l) -> l
   for each input line l that is not empty and does not start with '#';
   blank lines and lines starting with '#' contribute no entry. *)
C17_DictionaryEntries ==
    (called \in {"parse_dictionary", "dictionary::parse_dictionary"})
    => /\ DOMAIN result = {halves(fnv1_32_lower(l)) : l \in names_of(argument)}
       /\ \A l \in names_of(argument) : result[halves(fnv1_32_lower(l))] = l

(* The discriminants a file carries, found by its headers alone: the magic
   of each section, the body_type of each object of a HIRC section, the
   action_type (the two bytes after the id) of each object of type 3. *)
known_magics ==
    {magic_BKHD, magic_DIDX, magic_DATA, magic_HIRC, magic_FXPR} \cup magic_unmodelled

unknown_magic(file) ==
    \E i \in 1 .. Len(walk_sections(file, 1)) :
        /\ walk_sections(file, 1)[i].kind = "section"
        /\ walk_sections(file, 1)[i].magic \notin known_magics

file_objects(file) ==
    {o \in UNION {{walk_objects(walk_sections(file, 1)[i].body, 5)[j] :
                      j \in 1 .. Len(walk_objects(walk_sections(file, 1)[i].body, 5))} :
                  i \in {k \in 1 .. Len(walk_sections(file, 1)) :
                            /\ walk_sections(file, 1)[k].kind = "section"
                            /\ walk_sections(file, 1)[k].magic = magic_HIRC
                            /\ Len(walk_sections(file, 1)[k].body) >= 4}} :
        o.kind = "object"}

unknown_body_type(file) == \E o \in file_objects(file) : o.body_type \notin 1 .. 22

unknown_action_type(file) ==
    \E o \in file_objects(file) :
        /\ o.body_type = 3
        /\ Len(o.body) >= 2
        /\ from_le_bytes(SubSeq(o.body, 1, 2)) \notin CAkActionParams_ids

(* The discriminants written are those of the variants of the tree. *)
written_discriminants ==
    /\ Len(walk_sections(output, 1)) = Len(bank.sections)
    /\ \A i \in 1 .. Len(bank.sections) :
          /\ walk_sections(output, 1)[i].magic = SectionBody_deku_id(bank.sections[i].body)
          /\ bank.sections[i].body.kind = "HIRC"
             => /\ Len(walk_objects(walk_sections(output, 1)[i].body, 5))
                      = Len(bank.sections[i].body.objects)
                /\ \A j \in 1 .. Len(bank.sections[i].body.objects) :
                      /\ walk_objects(walk_sections(output, 1)[i].body, 5)[j].body_type
                            = HIRCObjectBody_deku_id(bank.sections[i].body.objects[j].body)
                      /\ bank.sections[i].body.objects[j].body.kind = "Action"
                         => from_le_bytes(SubSeq(
                                walk_objects(walk_sections(output, 1)[i].body, 5)[j].body, 1, 2))
                            = CAkActionParams_deku_id(
                                  bank.sections[i].body.objects[j].body.params)

(* C18: Unknown discriminants.  Decoding a section whose magic is not one
   of the 10 known tags, a HIRC object whose body_type is outside 1..=22, or
   an Action whose action_type is not in the implemented table returns a
   decode error; and on encode each variant writes its own discriminant. *)
C18_Discriminants ==
    /\ (origin = "file"
        /\ (unknown_magic(input) \/ unknown_body_type(input) \/ unknown_action_type(input)))
       => pc = "failed"
    /\ (pc = "encoded") => written_discriminants


(* The tree as parse_soundbank returned it: nothing edited or prepared. *)
as_parsed == origin = "file" /\ pc = "tree" /\ edits = 0 /\ nprep = 0

(* C19: Strict length check on decode.  When the declared size of a Section
   or HIRCObject differs from the number of bytes its body takes, or a
   declared count disagrees with the payload, parse returns an error: a
   tree that parse returned has sizes and counts that agree with its
   bodies. *)
C19_StrictLength ==
    as_parsed
    => /\ \A i \in 1 .. Len(bank.sections) :
             /\ bank.sections[i].size = Len(SectionBody_write(bank.sections[i].body))
             /\ bank.sections[i].body.kind = "HIRC"
                => bank.sections[i].body.object_count = Len(bank.sections[i].body.objects)
       /\ \A j \in 1 .. Len(objects_of(bank.sections)) :
             objects_of(bank.sections)[j].size =
                 Len(HIRCObjectBody_write(objects_of(bank.sections)[j].body)) + 4


(* C20: Decode totality.  For every input byte sequence parse_soundbank
   returns a complete Soundbank or a decode error: a read past the end of
   the input or of an enclosing block (truncated input, a BKHD section
   declaring a size below 20, a decision tree addressing records beyond its
   tree_size block) yields an error value, never an abort, and an error
   leaves no partial tree. *)
C20_DecodeTotality ==
    (origin = "file" /\ nprep = 0)
    => /\ pc # "panicked"
       /\ pc = "failed" => bank.sections = <<>>


(* C21: prepare is all-or-nothing.  Whenever prepare fails on a tree, the
   tree is left exactly as it was before the call: no padding, size, count
   or tree_size field of any section or object has been changed. *)
C21_AllOrNothing ==
    (pc = "panicked" /\ nprep > 0) => bank = prev


(* A run of handle_dir that imported at least one wem and wrote a bank. *)
imported ==
    /\ called = "handle_dir" /\ result.st = "ok"
    /\ \E i \in 1 .. Len(argument.files) : is_wem(argument.files[i])

(* The rebuilt sections of such a run, and the fields of a descriptor. *)
rebuilt_didx == section_body(result, "DIDX").descriptors

rebuilt_data == section_body(result, "DATA").data

descriptor_id(d) == from_le_bytes(SubSeq(d, 1, 4))

descriptor_offset(d) == from_le_bytes(SubSeq(d, 5, 8))

descriptor_size(d) == from_le_bytes(SubSeq(d, 9, 12))

json_alignment == section_body(argument, "BKHD").wem_alignment

(* C22: WEM import layout.  When handle_dir rebuilds DATA from loose WEM
   files, the WEMs are concatenated in ascending numeric id order, zero
   bytes are inserted after each WEM except the last so that every
   descriptor's offset is a multiple of BKHD.wem_alignment, for every
   positive wem_alignment, and DATA ends at the last byte of the last
   WEM. *)
C22_ImportLayout ==
    imported
    => /\ \A i \in 1 .. (Len(rebuilt_didx) - 1) :
             /\ descriptor_id(rebuilt_didx[i]) < descriptor_id(rebuilt_didx[i + 1])
             /\ descriptor_offset(rebuilt_didx[i]) + descriptor_size(rebuilt_didx[i])
                   <= descriptor_offset(rebuilt_didx[i + 1])
             /\ \A p \in (descriptor_offset(rebuilt_didx[i]) + descriptor_size(rebuilt_didx[i]) + 1)
                         .. descriptor_offset(rebuilt_didx[i + 1]) : rebuilt_data[p] = 0
       /\ \A i \in 1 .. Len(rebuilt_didx) :
             descriptor_offset(rebuilt_didx[i]) % json_alignment = 0
       /\ Len(rebuilt_data) = descriptor_offset(rebuilt_didx[Len(rebuilt_didx)])
                                + descriptor_size(rebuilt_didx[Len(rebuilt_didx)])


not_bkhd(section) == section.body.kind # "BKHD"

(* C23: Canonical DIDX/DATA position.  When at least one WEM is imported,
   handle_dir produces the section sequence BKHD, DIDX, DATA, then every
   other section of the JSON tree in its original order, for every JSON
   tree that contains a BKHD section; when no WEM is imported the section
   sequence is unchanged. *)
C23_CanonicalPosition ==
    /\ imported
       => /\ Len(result.sections) = Len(argument.sections) + 2
          /\ result.sections[1] = argument.sections[find_section(argument.sections, "BKHD")]
          /\ result.sections[2].body.kind = "DIDX"
          /\ result.sections[3].body.kind = "DATA"
          /\ SubSeq(result.sections, 4, Len(result.sections))
                = SelectSeq(argument.sections, not_bkhd)
    /\ (called = "handle_dir" /\ result.st = "ok" /\ ~imported)
       => result.sections = argument.sections


(* C24: JSON field codecs are exact inverses.  For every byte array v,
   deserialize(serialize(v)) = v under the base64 codec, and for every
   C-string and byte-string field value, also one whose bytes are not valid
   UTF-8, deserializing the serialized string yields the original bytes. *)
C24_CodecsInverse ==
    (called \in {"serialization::cstring", "serialization::bytestring",
                 "serialization::base64"})
    => result.value = Some(argument)


(* ------------------------------------------------------------------ *)
(* C25: an object id is written as the 4 little-endian bytes of its     *)
(* hash (for a name, the FNV-1 hash of the lower-cased name); reading   *)
(* those bytes gives the Hash id of that value; and the tree            *)
(* handle_soundbank writes as JSON, with names put in for the ids the   *)
(* dictionary holds, encodes to the same bytes as the tree with the     *)
(* parsed Hash ids.                                                     *)
(* ------------------------------------------------------------------ *)
octets_of(x) == [k \in 1 .. 4 |-> from_bits(SubSeq(x, 8 * k - 7, 8 * k))]

hash_word(id) == IF id.tag = "String" THEN fnv1_32_lower(id.string) ELSE word(id.hash)

named_ids(sections) ==
    {<<i, j>> \in (1 .. Len(sections)) \X (1 .. 3) :
        /\ sections[i].body.kind = "HIRC"
        /\ j <= Len(sections[i].body.objects)
        /\ sections[i].body.objects[j].id.tag = "String"}

C25_ObjectIdEncoding ==
    /\ called = "ObjectId::write" =>
          /\ result.bytes = octets_of(hash_word(argument))
          /\ result.read.st = "ok"
          /\ result.read.val.id = [tag |-> "Hash", hash |-> from_le_bytes(result.bytes)]
          /\ result.read.val.id.hash = ObjectId_as_hash(argument)
    /\ (called = "handle_soundbank" /\ pc = "returned") =>
          /\ Section_write_all(result.sections) = Section_write_all(result.parsed)
          /\ \A p \in named_ids(result.sections) :
                 /\ result.parsed[p[1]].body.objects[p[2]].id.tag = "Hash"
                 /\ octets_of(hash_word(result.sections[p[1]].body.objects[p[2]].id))
                        = u32_write(result.parsed[p[1]].body.objects[p[2]].id.hash)

(* A bank whose object id 0x4AE0223F became the name "Play" of the
   dictionary, beside an id the dictionary does not hold. *)
C25_Witness ==
    /\ called = "handle_soundbank"
    /\ pc = "returned"
    /\ named_ids(result.sections) # {}
    /\ \E i \in 1 .. Len(result.sections) :
          /\ result.sections[i].body.kind = "HIRC"
          /\ Len(result.sections[i].body.objects) = 3
          /\ result.sections[i].body.objects[1].id = [tag |-> "String", string |-> <<80, 108, 97, 121>>]
          /\ result.sections[i].body.objects[2].id = [tag |-> "Hash", hash |-> 10]


(* ------------------------------------------------------------------ *)
(* C26: a record is decoded as a leaf (node_id = the middle field, no   *)
(* children) exactly when the node's depth equals tree_depth or one of  *)
(* the 16-bit halves of the middle field exceeds the node count         *)
(* tree_size / 12; otherwise it is an internal node with the low half   *)
(* as first_child_index and the high half as child_count.               *)
(* ------------------------------------------------------------------ *)
middle_field(a) == from_le_bytes(SubSeq(a.slice, a.offset * 12 + 5, a.offset * 12 + 8))

leaf_by_node_count(a) ==
    \/ a.current_depth = a.tree_depth
    \/ middle_field(a) % 65536 > a.tree_size \div 12
    \/ middle_field(a) \div 65536 > a.tree_size \div 12

C26_LeafDiscrimination ==
    (called = "parse_node" /\ pc = "returned" /\ result.st = "ok") =>
        IF leaf_by_node_count(argument)
        THEN /\ result.val.node_id = middle_field(argument)
             /\ result.val.first_child_index = 0
             /\ result.val.child_count = 0
             /\ result.val.children = <<>>
        ELSE /\ result.val.node_id = 0
             /\ result.val.first_child_index = middle_field(argument) % 65536
             /\ result.val.child_count = middle_field(argument) \div 65536


(* ------------------------------------------------------------------ *)
(* C27: a sequence longer than its count field can hold is reported as  *)
(* an error on encode; no count reduced modulo 2^width is written in    *)
(* front of a different number of elements.  For a property bundle:     *)
(* whatever write_list writes starts with the number of its entries,    *)
(* followed by that many tags and that many 4-byte values.              *)
(* ------------------------------------------------------------------ *)
C27_CountInRange ==
    (called = "PropBundle::write_list" /\ pc = "returned") =>
        /\ result[1] = Len(argument)
        /\ Len(result) = 1 + 5 * result[1]


(* ------------------------------------------------------------------ *)
(* C28: prepare_soundbank returns to its caller for every tree, with    *)
(* success or with a PrepareError; a tree with a DIDX section and       *)
(* wem_alignment 0, or with a DIDX section and no BKHD section, does    *)
(* not abort the process.                                               *)
(* ------------------------------------------------------------------ *)
C28_PrepareTotality == nprep > 0 => pc # "panicked"


(* ------------------------------------------------------------------ *)
(* C29: decoding a tree block ends for every block and every            *)
(* tree_depth, also when child indices point at the node itself or at   *)
(* an ancestor record: parse_node gives a tree, an error or a panic;    *)
(* no node of the tree lies deeper than tree_depth, a child being one   *)
(* level below its parent; and every node at depth tree_depth is a      *)
(* leaf.                                                                *)
(* ------------------------------------------------------------------ *)
RECURSIVE within_depth(_, _, _)
within_depth(node, depth, tree_depth) ==
    /\ depth <= tree_depth
    /\ depth = tree_depth =>
          /\ node.children = <<>>
          /\ node.first_child_index = 0
          /\ node.child_count = 0
    /\ \A i \in 1 .. Len(node.children) : within_depth(node.children[i], depth + 1, tree_depth)

RECURSIVE height(_)
height(node) ==
    IF node.children = <<>> THEN 0
    ELSE 1 + height(node.children[CHOOSE i \in 1 .. Len(node.children) :
                        \A j \in 1 .. Len(node.children) :
                            TreeNodeCount(node.children[i]) >= TreeNodeCount(node.children[j])])

points_back(a) ==
    /\ middle_field(a) \div 65536 > 0
    /\ middle_field(a) % 65536 <= a.offset

C29_TreeDecodeEnds ==
    called = "parse_node" =>
        /\ result.st \in {"ok", "err", "panic"}
        /\ pc = "panicked" <=> result.st = "panic"
        /\ result.st = "ok" =>
              /\ within_depth(result.val, argument.current_depth, argument.tree_depth)
              /\ Len(result.val.children) = result.val.child_count

(* The block whose root names itself as its only child, decoded from the
   root with tree_depth 3: a chain of the same record, three levels deep. *)
C29_Witness ==
    /\ called = "parse_node"
    /\ pc = "returned"
    /\ result.st = "ok"
    /\ argument.tree_depth = 3
    /\ argument.current_depth = 0
    /\ argument.offset = 0
    /\ points_back(argument)
    /\ height(result.val) = 3


(* ------------------------------------------------------------------ *)
(* C30: after handle_dir has rebuilt DIDX and DATA, the bytes           *)
(* DATA.data[d.offset .. d.offset + d.size] of every descriptor d are   *)
(* the contents of the file <d.id>.wem of the directory, the byte       *)
(* ranges of distinct descriptors do not overlap, the descriptors are   *)
(* in ascending id order, and every DATA byte outside the ranges is 0.  *)
(* ------------------------------------------------------------------ *)
descriptor_range(d) == (descriptor_offset(d) + 1) .. (descriptor_offset(d) + descriptor_size(d))

wem_file_of(d) == [name |-> to_decimal(descriptor_id(d)) \o wem_suffix,
                   bytes |-> SubSeq(rebuilt_data, descriptor_offset(d) + 1,
                                    descriptor_offset(d) + descriptor_size(d))]

C30_DescriptorsAddressWems ==
    imported
    => /\ \A i \in 1 .. Len(rebuilt_didx) :
             /\ descriptor_offset(rebuilt_didx[i]) + descriptor_size(rebuilt_didx[i])
                    <= Len(rebuilt_data)
             /\ \E f \in 1 .. Len(argument.files) :
                    argument.files[f] = wem_file_of(rebuilt_didx[i])
       /\ \A i, j \in 1 .. Len(rebuilt_didx) :
             i < j =>
                /\ descriptor_range(rebuilt_didx[i]) \cap descriptor_range(rebuilt_didx[j]) = {}
                /\ descriptor_id(rebuilt_didx[i]) < descriptor_id(rebuilt_didx[j])
       /\ \A p \in 1 .. Len(rebuilt_data) :
             (\A i \in 1 .. Len(rebuilt_didx) : p \notin descriptor_range(rebuilt_didx[i]))
                => rebuilt_data[p] = 0

====
